---- MODULE Spec2Model ----
(***************************************************************************)
(* Model of the AFSP normalization pipeline (afsp_app/app): the amount,   *)
(* date and description tools, the NormalizedTransaction schema and the    *)
(* TransactionInterpretationAgent.                                         *)
(*                                                                         *)
(* Python strings are sequences of one-character strings.  An Optional     *)
(* value is the empty tuple (None) or a one-element tuple <<v>>.  A float  *)
(* is the decimal it was parsed from: [m |-> mantissa, s |-> scale] is     *)
(* m / 10^s, kept normalised (no trailing zero in the fraction), so two    *)
(* floats are equal exactly when their records are.                        *)
(***************************************************************************)
EXTENDS Integers, Sequences, FiniteSets, TLC

VARIABLES
    call,   \* the function under call and its arguments
    ret,    \* its return value, once pc = "done"
    pc,     \* "call" before the function has run, "done" after; "loop" inside a loop
    locals  \* the local variables of a function that runs in several steps

vars == <<call, ret, pc, locals>>

----------------------------------------------------------------------------
(* Optional values and strings *)

None == <<>>
Some(v) == <<v>>

\* Python truthiness of an Optional[str]: None and "" are falsy
Truthy(o) == o # None /\ Len(o[1]) > 0

DigitChars == {"0", "1", "2", "3", "4", "5", "6", "7", "8", "9"}

DigitVal(c) ==
    CASE c = "0" -> 0 [] c = "1" -> 1 [] c = "2" -> 2 [] c = "3" -> 3
      [] c = "4" -> 4 [] c = "5" -> 5 [] c = "6" -> 6 [] c = "7" -> 7
      [] c = "8" -> 8 [] c = "9" -> 9

Whitespace == {" ", "\t", "\n"}

Contains(s, c) == \E i \in 1..Len(s) : s[i] = c

\* str.replace(c, "") for a one-character c
RemoveAll(s, c) == SelectSeq(s, LAMBDA x : x # c)

\* str.replace(a, b) for one-character a and b
ReplaceChar(s, a, b) == [i \in 1..Len(s) |-> IF s[i] = a THEN b ELSE s[i]]

\* str.rindex(c): 0-based index of the last occurrence (c occurs in s)
RIndex(s, c) == (CHOOSE i \in 1..Len(s) : s[i] = c /\ \A j \in (i+1)..Len(s) : s[j] # c) - 1

RECURSIVE LStrip(_)
LStrip(s) == IF s # <<>> /\ Head(s) \in Whitespace THEN LStrip(Tail(s)) ELSE s

RECURSIVE RStrip(_)
RStrip(s) ==
    IF s # <<>> /\ s[Len(s)] \in Whitespace THEN RStrip(SubSeq(s, 1, Len(s) - 1)) ELSE s

\* str.strip()
Strip(s) == RStrip(LStrip(s))

\* s.startswith(p)
StartsWith(s, p) == Len(s) >= Len(p) /\ SubSeq(s, 1, Len(p)) = p

\* p in s
HasSubstring(s, p) ==
    \E i \in 0..(Len(s) - Len(p)) : SubSeq(s, i + 1, i + Len(p)) = p

\* the least of a non-empty set of numbers
Least(S) == CHOOSE x \in S : \A y \in S : x <= y

\* the offsets at which p occurs in s
Offsets(s, p) == {i \in 0..(Len(s) - Len(p)) : SubSeq(s, i + 1, i + Len(p)) = p}

\* s.replace(p, "") for a non-empty p: leftmost occurrences, left to right
RECURSIVE RemoveFrom(_, _, _)
RemoveFrom(s, p, found) ==
    IF found = {} THEN s
    ELSE SubSeq(s, 1, Least(found))
             \o RemoveFrom(SubSeq(s, Least(found) + Len(p) + 1, Len(s)), p,
                           Offsets(SubSeq(s, Least(found) + Len(p) + 1, Len(s)), p))

RemoveSubstring(s, p) == RemoveFrom(s, p, Offsets(s, p))

\* the lower-case letter of each upper-case letter, and the other way round
LowerOf ==
    "A" :> "a" @@ "B" :> "b" @@ "C" :> "c" @@ "D" :> "d" @@ "E" :> "e" @@ "F" :> "f" @@ "G" :> "g" @@
    "H" :> "h" @@ "I" :> "i" @@ "J" :> "j" @@ "K" :> "k" @@ "L" :> "l" @@ "M" :> "m" @@ "N" :> "n" @@
    "O" :> "o" @@ "P" :> "p" @@ "Q" :> "q" @@ "R" :> "r" @@ "S" :> "s" @@ "T" :> "t" @@ "U" :> "u" @@
    "V" :> "v" @@ "W" :> "w" @@ "X" :> "x" @@ "Y" :> "y" @@ "Z" :> "z"

UpperOf ==
    "a" :> "A" @@ "b" :> "B" @@ "c" :> "C" @@ "d" :> "D" @@ "e" :> "E" @@ "f" :> "F" @@ "g" :> "G" @@
    "h" :> "H" @@ "i" :> "I" @@ "j" :> "J" @@ "k" :> "K" @@ "l" :> "L" @@ "m" :> "M" @@ "n" :> "N" @@
    "o" :> "O" @@ "p" :> "P" @@ "q" :> "Q" @@ "r" :> "R" @@ "s" :> "S" @@ "t" :> "T" @@ "u" :> "U" @@
    "v" :> "V" @@ "w" :> "W" @@ "x" :> "X" @@ "y" :> "Y" @@ "z" :> "Z"

\* str.lower(), of one character and of a string, and str.upper()
LowerChar(c) == IF c \in DOMAIN LowerOf THEN LowerOf[c] ELSE c

Lower(s) == [i \in 1..Len(s) |-> LowerChar(s[i])]
Upper(s) == [i \in 1..Len(s) |-> IF s[i] \in DOMAIN UpperOf THEN UpperOf[s[i]] ELSE s[i]]

----------------------------------------------------------------------------
(* Floats *)

RECURSIVE Pow10(_)
Pow10(n) == IF n = 0 THEN 1 ELSE 10 * Pow10(n - 1)

RECURSIVE Normalise(_, _)
Normalise(m, s) ==
    IF s > 0 /\ m % 10 = 0 THEN Normalise(m \div 10, s - 1) ELSE [m |-> m, s |-> s]

Zero == [m |-> 0, s |-> 0]

\* abs(x), -x, x < 0, x > 0 on floats
Abs(x) == [m |-> IF x.m < 0 THEN 0 - x.m ELSE x.m, s |-> x.s]
Neg(x) == [m |-> 0 - x.m, s |-> x.s]
IsNeg(x) == x.m < 0
IsPos(x) == x.m > 0

RECURSIVE DigitsToNat(_)
DigitsToNat(ds) ==
    IF ds = <<>> THEN 0
    ELSE 10 * DigitsToNat(SubSeq(ds, 1, Len(ds) - 1)) + DigitVal(ds[Len(ds)])

\* -x for an Optional float
NegOptional(x) == IF x = None THEN None ELSE Some(Neg(x[1]))

\* the digits of body are digits and at most one ".", with a digit among them
WellFormed(body) ==
    /\ \A i \in 1..Len(body) : body[i] \in DigitChars \cup {"."}
    /\ Cardinality({i \in 1..Len(body) : body[i] = "."}) <= 1
    /\ \E i \in 1..Len(body) : body[i] \in DigitChars

\* the number written by the digits of body, its "." left out, and the
\* number of digits after the "."
UnsignedFloat(body) ==
    IF WellFormed(body)
    THEN Some(Normalise(DigitsToNat(SelectSeq(body, LAMBDA c : c \in DigitChars)),
                        IF Contains(body, ".") THEN Len(body) - (RIndex(body, ".") + 1) ELSE 0))
    ELSE None

SignedFloat(s) ==
    IF s # <<>> /\ Head(s) = "-" THEN NegOptional(UnsignedFloat(Tail(s)))
    ELSE IF s # <<>> /\ Head(s) = "+" THEN UnsignedFloat(Tail(s))
    ELSE UnsignedFloat(s)

\* float(s) for a string over digits, ".", ",", "-", "+", "$", ":", brackets,
\* letters and whitespace: surrounding whitespace is ignored, one leading
\* sign is allowed, then digits with at most one "." and at least one digit.
\* None stands for ValueError.
PyFloat(s) == SignedFloat(Strip(s))

----------------------------------------------------------------------------
(* tools/amount_parser.py *)

\* re.sub(r'[^\d\.\,\-]', '', cleaned)
KeepNumeric(s) == SelectSeq(s, LAMBDA c : c \in DigitChars \cup {".", ",", "-"})

\* a slip in line 129: the earlier separator taken for the decimal point
ResolveSeparators_EarlierWins(cleaned) ==
    IF Contains(cleaned, ",") /\ Contains(cleaned, ".")
    THEN IF RIndex(cleaned, ",") < RIndex(cleaned, ".")
         THEN ReplaceChar(RemoveAll(cleaned, "."), ",", ".")
         ELSE RemoveAll(cleaned, ",")
    ELSE IF Contains(cleaned, ",") /\ ~Contains(cleaned, ".")
    THEN IF Len(cleaned) - RIndex(cleaned, ",") <= 3
         THEN ReplaceChar(cleaned, ",", ".")
         ELSE RemoveAll(cleaned, ",")
    ELSE cleaned

\* European vs US number formatting, amount_parser.py lines 123-143
ResolveSeparators(cleaned) ==
    IF Contains(cleaned, ",") /\ Contains(cleaned, ".")
    THEN LET last_comma == RIndex(cleaned, ",")
             last_dot == RIndex(cleaned, ".")
         IN  IF last_comma > last_dot
             THEN ReplaceChar(RemoveAll(cleaned, "."), ",", ".")
             ELSE RemoveAll(cleaned, ",")
    ELSE IF Contains(cleaned, ",") /\ ~Contains(cleaned, ".")
    THEN IF Len(cleaned) - RIndex(cleaned, ",") <= 3
         THEN ReplaceChar(cleaned, ",", ".")
         ELSE RemoveAll(cleaned, ",")
    ELSE cleaned

\* a slip in line 150: -amount for -abs(amount)
NegateParenthesized_NoAbs(amount) == Neg(amount)

\* amount_parser.py line 150: -abs(amount)
NegateParenthesized(amount) == Neg(Abs(amount))

\* lines 149-150 on the Optional float of line 146
NegateIfParsed(amount) ==
    IF amount = None THEN None ELSE Some(NegateParenthesized(amount[1]))

\* lines 121-152: the float of what is left of the string
ParseCleaned(cleaned) == PyFloat(ResolveSeparators(KeepNumeric(cleaned)))

\* lines 112-152, on the stripped string
ExtractStripped(cleaned) ==
    IF Contains(cleaned, "(") /\ Contains(cleaned, ")")
    THEN NegateIfParsed(ParseCleaned(RemoveAll(RemoveAll(cleaned, "("), ")")))
    ELSE ParseCleaned(cleaned)

extract_numeric_amount(amount_str) ==
    IF ~Truthy(amount_str) THEN None ELSE ExtractStripped(Strip(amount_str[1]))

contains_credit_indicators(text) ==
    LET lower_text == Lower(text)
        credit_indicators == {
            <<"c", "r", "e", "d", "i", "t">>,
            <<"d", "e", "p", "o", "s", "i", "t">>,
            <<"r", "e", "f", "u", "n", "d">>,
            <<"p", "a", "y", "m", "e", "n", "t", " ", "r", "e", "c", "e", "i", "v", "e", "d">>,
            <<"c", "r">>,
            <<"i", "n", "c", "o", "m", "i", "n", "g">>,
            <<"s", "a", "l", "a", "r", "y">>,
            <<"i", "n", "t", "e", "r", "e", "s", "t">>,
            <<"r", "e", "i", "m", "b", "u", "r", "s", "e", "m", "e", "n", "t">>
        }
    IN  \E indicator \in credit_indicators : HasSubstring(lower_text, indicator)

contains_debit_indicators(text) ==
    LET lower_text == Lower(text)
        debit_indicators == {
            <<"d", "e", "b", "i", "t">>,
            <<"p", "a", "y", "m", "e", "n", "t">>,
            <<"w", "i", "t", "h", "d", "r", "a", "w", "a", "l">>,
            <<"p", "u", "r", "c", "h", "a", "s", "e">>,
            <<"d", "r">>,
            <<"o", "u", "t", "g", "o", "i", "n", "g">>,
            <<"f", "e", "e">>,
            <<"c", "h", "a", "r", "g", "e">>,
            <<"b", "i", "l", "l">>,
            <<"i", "n", "v", "o", "i", "c", "e">>
        }
    IN  \E indicator \in debit_indicators : HasSubstring(lower_text, indicator)

\* the tag _extract_transaction_fields puts before a structured Amount
CSVPrefix == <<"C", "S", "V", ":">>

\* what parse_amount_and_type returns: (amount, transaction_type)
AmountAndType(amount, type) == [amount |-> Some(amount), transaction_type |-> Some(type)]
NoAmount == [amount |-> None, transaction_type |-> None]

\* lines 74-83: the sign of csv_amount decides, or that of the extracted
\* amount when float() raised ValueError (csv_amount = None)
TrustedSign(csv_amount, amount) ==
    IF csv_amount # None
    THEN IF IsPos(csv_amount[1])
         THEN AmountAndType(csv_amount[1], "Credit")
         ELSE AmountAndType(csv_amount[1], "Debit")
    ELSE IF IsPos(amount)
         THEN AmountAndType(amount, "Credit")
         ELSE AmountAndType(amount, "Debit")

\* amount_parser.py lines 66-83: a combined candidate tagged "CSV:", neither
\* negative nor carrying an indicator word; amount is its extracted value
StructuredAmountAndType(potential_amount_str, amount) ==
    TrustedSign(PyFloat(RemoveAll(RemoveSubstring(potential_amount_str, CSVPrefix), ",")),
                amount)

\* a slip in lines 87-88: the literal sign trusted for unstructured text too
UnstructuredAmountAndType_TrustSign(amount) ==
    IF IsPos(amount)
    THEN AmountAndType(amount, "Credit")
    ELSE AmountAndType(amount, "Debit")

\* a slip in line 88: the amount left positive
UnstructuredAmountAndType_NotInverted(amount) == AmountAndType(amount, "Debit")

\* amount_parser.py lines 84-90: unstructured text defaults to Debit
UnstructuredAmountAndType(amount) ==
    IF IsPos(amount)
    THEN AmountAndType(Neg(amount), "Debit")
    ELSE AmountAndType(amount, "Debit")

\* a slip in lines 61-64: the credit indicator tested before the debit one
SignAndType_CreditFirst(potential_amount_str, amount) ==
    IF amount = None THEN NoAmount
    ELSE IF contains_credit_indicators(potential_amount_str)
    THEN AmountAndType(Abs(amount[1]), "Credit")
    ELSE IF IsNeg(amount[1]) \/ contains_debit_indicators(potential_amount_str)
    THEN AmountAndType(Neg(Abs(amount[1])), "Debit")
    ELSE IF StartsWith(potential_amount_str, CSVPrefix)
    THEN StructuredAmountAndType(potential_amount_str, amount[1])
    ELSE UnstructuredAmountAndType(amount[1])

\* amount_parser.py lines 57-90: the sign and type of the amount extracted
\* from the combined candidate (None when nothing was extracted)
SignAndType(potential_amount_str, amount) ==
    IF amount = None THEN NoAmount
    ELSE IF IsNeg(amount[1]) \/ contains_debit_indicators(potential_amount_str)
    THEN AmountAndType(Neg(Abs(amount[1])), "Debit")
    ELSE IF contains_credit_indicators(potential_amount_str)
    THEN AmountAndType(Abs(amount[1]), "Credit")
    ELSE IF StartsWith(potential_amount_str, CSVPrefix)
    THEN StructuredAmountAndType(potential_amount_str, amount[1])
    ELSE UnstructuredAmountAndType(amount[1])

\* amount_parser.py lines 48-93: the combined amount decides
CombinedAmountAndType(potential_amount_str) ==
    SignAndType(potential_amount_str, extract_numeric_amount(Some(potential_amount_str)))

\* lines 34 and 42: amount is not None and amount != 0
NonZero(amount) == IF amount # None /\ amount[1] # Zero THEN amount ELSE None

\* a slip in lines 34 and 42: the test amount != 0 left out
ColumnAmount_ZeroCounts(column_str) ==
    IF Truthy(column_str) THEN extract_numeric_amount(column_str) ELSE None

\* amount_parser.py lines 31-37 and 39-45: a column candidate counts when it
\* is non-empty and extracts to a non-zero number
ColumnAmount(column_str) ==
    IF Truthy(column_str) THEN NonZero(extract_numeric_amount(column_str)) ELSE None

\* a slip in lines 31-45: the debit column consulted before the credit column
ByPrecedence_DebitFirst(credit_amount, debit_amount, potential_amount_str) ==
    IF debit_amount # None
    THEN AmountAndType(Neg(Abs(debit_amount[1])), "Debit")
    ELSE IF credit_amount # None
    THEN AmountAndType(Abs(credit_amount[1]), "Credit")
    ELSE IF Truthy(potential_amount_str)
    THEN CombinedAmountAndType(potential_amount_str[1])
    ELSE NoAmount

\* lines 31-95: the credit column, then the debit column, then the combined amount
ByPrecedence(credit_amount, debit_amount, potential_amount_str) ==
    IF credit_amount # None
    THEN AmountAndType(Abs(credit_amount[1]), "Credit")
    ELSE IF debit_amount # None
    THEN AmountAndType(Neg(Abs(debit_amount[1])), "Debit")
    ELSE IF Truthy(potential_amount_str)
    THEN CombinedAmountAndType(potential_amount_str[1])
    ELSE NoAmount

parse_amount_and_type(potential_amount_str, potential_credit_str, potential_debit_str) ==
    ByPrecedence(ColumnAmount(potential_credit_str), ColumnAmount(potential_debit_str),
                 potential_amount_str)

----------------------------------------------------------------------------
(* tools/date_parser.py *)

DigitChar(n) ==
    CASE n = 0 -> "0" [] n = 1 -> "1" [] n = 2 -> "2" [] n = 3 -> "3"
      [] n = 4 -> "4" [] n = 5 -> "5" [] n = 6 -> "6" [] n = 7 -> "7"
      [] n = 8 -> "8" [] n = 9 -> "9"

\* the tokens of s between occurrences of the separator sep
RECURSIVE SplitOn(_, _)
SplitOn(s, sep) ==
    IF ~Contains(s, sep) THEN <<s>>
    ELSE LET i == CHOOSE k \in 1..Len(s) : s[k] = sep /\ \A j \in 1..(k - 1) : s[j] # sep
         IN  <<SubSeq(s, 1, i - 1)>> \o SplitOn(SubSeq(s, i + 1, Len(s)), sep)

IsNumber(token) == token # <<>> /\ \A i \in 1..Len(token) : token[i] \in DigitChars

DaysInMonth(y, m) ==
    IF m = 2 THEN (IF (y % 4 = 0 /\ y % 100 # 0) \/ y % 400 = 0 THEN 29 ELSE 28)
    ELSE IF m \in {4, 6, 9, 11} THEN 30
    ELSE 31

\* datetime accepts the year, month and day
ValidDate(y, m, d) ==
    /\ y >= 1 /\ y <= 9999
    /\ m >= 1 /\ m <= 12
    /\ d >= 1 /\ d <= DaysInMonth(y, m)

Date(y, m, d) == [year |-> y, month |-> m, day |-> d]

\* what dateutil.parser.parse does: a date, ParserError, or the OverflowError
\* of datetime.replace for a number beyond the largest C int
Parsed(date) == [error |-> "none", date |-> date]
ParserError == [error |-> "ParserError", date |-> Date(0, 0, 0)]
OverflowError == [error |-> "OverflowError", date |-> Date(0, 0, 0)]

\* int(token) > 2147483647, for a token of digits
ExceedsCInt(token) ==
    LET zeros == IF \A i \in 1..Len(token) : token[i] = "0" THEN Len(token)
                 ELSE Least({i \in 1..Len(token) : token[i] # "0"}) - 1
        digits == SubSeq(token, zeros + 1, Len(token))
    IN  \/ Len(digits) > 10
        \/ /\ Len(digits) = 10
           /\ \/ DigitsToNat(SubSeq(digits, 1, 9)) > 214748364
              \/ DigitsToNat(SubSeq(digits, 1, 9)) = 214748364 /\ DigitVal(digits[10]) > 7

\* dateutil's _ymd.resolve_ymd for three numbers with the year written last
\* in four digits (ystridx = 2) and no month name: (year, month, day)
ResolveYMD(n1, n2, n3, dayfirst) ==
    IF n1 > 31
    THEN IF dayfirst /\ n3 <= 12 THEN Date(n1, n3, n2) ELSE Date(n1, n2, n3)
    ELSE IF n1 > 12 \/ (dayfirst /\ n2 <= 12)
    THEN Date(n3, n2, n1)
    ELSE Date(n3, n1, n2)

\* dateutil.parser.parse(date_str, dayfirst=...) on the strings the model
\* holds: "n/n/y" with one- or two-digit n and a year y of four digits or
\* more, and strings that hold no date.  The year is passed to
\* datetime.replace, which raises OverflowError for a number beyond a C int
\* before it looks at the calendar, and ValueError, which dateutil turns into
\* ParserError, for a date the calendar does not hold.
DateutilParse(date_str, dayfirst) ==
    LET tokens == SplitOn(date_str, "/")
    IN  IF /\ Len(tokens) = 3
           /\ \A i \in 1..3 : IsNumber(tokens[i])
           /\ Len(tokens[1]) <= 2 /\ Len(tokens[2]) <= 2 /\ Len(tokens[3]) >= 4
        THEN IF ExceedsCInt(tokens[3]) THEN OverflowError
             ELSE LET ymd == ResolveYMD(DigitsToNat(tokens[1]), DigitsToNat(tokens[2]),
                                        DigitsToNat(tokens[3]), dayfirst)
                  IN  IF ValidDate(ymd.year, ymd.month, ymd.day) THEN Parsed(ymd)
                      ELSE ParserError
        ELSE ParserError

WordChars ==
    DigitChars \cup {"_"} \cup
    {"a", "b", "c", "d", "e", "f", "g", "h", "i", "j", "k", "l", "m",
     "n", "o", "p", "q", "r", "s", "t", "u", "v", "w", "x", "y", "z",
     "A", "B", "C", "D", "E", "F", "G", "H", "I", "J", "K", "L", "M",
     "N", "O", "P", "Q", "R", "S", "T", "U", "V", "W", "X", "Y", "Z"}

\* re.sub(r'[^\w\s/\-\.]+$', '', date_str)
RECURSIVE StripTrailingNoise(_)
StripTrailingNoise(s) ==
    IF s # <<>> /\ s[Len(s)] \notin WordChars \cup Whitespace \cup {"/", "-", "."}
    THEN StripTrailingNoise(SubSeq(s, 1, Len(s) - 1))
    ELSE s

\* An argument that is neither None nor a str is a pair <<type, value>>
IsStr(o) == Len(o) <= 1

\* a slip in lines 37 and 42: the day-first attempt made before the month-first one
parse_date_robustly_DayFirst(date_str) ==
    IF ~IsStr(date_str) \/ ~Truthy(date_str) THEN None
    ELSE LET cleaned == StripTrailingNoise(Strip(date_str[1]))
             first == DateutilParse(cleaned, TRUE)
             second == DateutilParse(cleaned, FALSE)
         IN  IF first.error = "none" THEN Some(first.date)
             ELSE IF second.error = "none" THEN Some(second.date)
             ELSE None

\* the except clauses of line 40 fall to the day-first attempt
TryBothOrders_NoCatchAll(first, second) ==
    IF first.error = "none" THEN [raises |-> "none", returns |-> Some(first.date)]
    ELSE IF first.error # "ParserError" THEN [raises |-> first.error, returns |-> None]
    ELSE IF second.error = "none" THEN [raises |-> "none", returns |-> Some(second.date)]
    ELSE IF second.error = "ParserError" THEN [raises |-> "none", returns |-> None]
    ELSE [raises |-> second.error, returns |-> None]

\* lines 36-50, given what the month-first attempt and the day-first attempt
\* do: what the call returns, or the exception that leaves it.  The day-first
\* attempt runs inside the handler of line 40, where only the ParserError of
\* line 45 is caught: the handler of line 48 belongs to the outer try and
\* guards the month-first attempt alone.
TryBothOrders(first, second) ==
    IF first.error = "none" THEN [raises |-> "none", returns |-> Some(first.date)]
    ELSE IF first.error # "ParserError" THEN [raises |-> "none", returns |-> None]
    ELSE IF second.error = "none" THEN [raises |-> "none", returns |-> Some(second.date)]
    ELSE IF second.error = "ParserError" THEN [raises |-> "none", returns |-> None]
    ELSE [raises |-> second.error, returns |-> None]

\* lines 26-50: how a call of parse_date_robustly ends
ParseDateOutcome(date_str) ==
    IF ~IsStr(date_str) \/ ~Truthy(date_str) THEN [raises |-> "none", returns |-> None]
    ELSE TryBothOrders(DateutilParse(StripTrailingNoise(Strip(date_str[1])), FALSE),
                       DateutilParse(StripTrailingNoise(Strip(date_str[1])), TRUE))

parse_date_robustly(date_str) == ParseDateOutcome(date_str).returns

----------------------------------------------------------------------------
(* schemas.py *)

\* NormalizedTransaction(...): pydantic checks the fields' types and stores the
\* values it is given; transaction_id is a fresh uuid4 that nothing reads
NormalizedTransaction(date, description, amount, transaction_type, original_source_file, processing_notes) ==
    [date |-> date, description |-> description, amount |-> amount,
     transaction_type |-> transaction_type, original_source_file |-> original_source_file,
     processing_notes |-> processing_notes]

\* NormalizedTransaction.validate_amount_sign
validate_amount_sign(obj) ==
    IF obj.transaction_type = "Credit" /\ IsNeg(obj.amount)
    THEN [obj EXCEPT !.amount = Abs(obj.amount)]
    ELSE IF obj.transaction_type = "Debit" /\ IsPos(obj.amount)
    THEN [obj EXCEPT !.amount = Neg(Abs(obj.amount))]
    ELSE obj

\* NormalizedTransaction.model_validate, given the fields of a transaction
model_validate(fields) ==
    LET obj == NormalizedTransaction(fields.date, fields.description, fields.amount,
                                     fields.transaction_type, fields.original_source_file,
                                     fields.processing_notes)
    IN  validate_amount_sign(obj)

----------------------------------------------------------------------------
(* Regular expressions (module re) *)

\* A pattern is a tree.  Chr(set) is one character of the set and NotChr(set)
\* one character outside it; LitI(chars) is the word under re.IGNORECASE; WB is
\* \b and EOS is $; Cat is a concatenation, Alt a choice tried in order,
\* Rep(p, min, max) the greedy p{min,max} (p? is Rep(p, 0, 1)), AtLeast(p, min)
\* the greedy p{min,} and Grp(p) a capturing group.  \d is Chr(DigitChars) and
\* \s is Chr(Whitespace).
Chr(set) == [op |-> "chr", set |-> set]
NotChr(set) == [op |-> "notchr", set |-> set]
LitI(chars) == [op |-> "lit", chars |-> Lower(chars)]
WB == [op |-> "wb"]
EOS == [op |-> "eos"]
Cat(parts) == [op |-> "cat", parts |-> parts]
Alt(parts) == [op |-> "alt", parts |-> parts]
Rep(p, min, max) == [op |-> "rep", of |-> p, min |-> min, max |-> max, bounded |-> TRUE]
AtLeast(p, min) == [op |-> "rep", of |-> p, min |-> min, max |-> min, bounded |-> FALSE]
Grp(p) == [op |-> "grp", of |-> p]

RECURSIVE Concat(_)
Concat(seqs) == IF seqs = <<>> THEN <<>> ELSE Head(seqs) \o Concat(Tail(seqs))

\* a greedy repeat of a single-character pattern c: how many characters it
\* takes from offset i, limit at most, and its matches, the longest first,
\* down to the minimum
RunLength(c, s, i, limit) ==
    CHOOSE n \in 0..limit :
        /\ \A k \in 1..n : (s[i + k] \in c.set) = (c.op = "chr")
        /\ n = limit \/ (s[i + n + 1] \in c.set) # (c.op = "chr")
RunMatches(p, i, g, n) ==
    IF n < p.min THEN <<>> ELSE [k \in 1..(n - p.min + 1) |-> [e |-> i + n - k + 1, g |-> g]]

\* Every way pattern p matches s from offset i, in the order the backtracking
\* matcher of re tries them: each is [e |-> offset where the match ends,
\* g |-> spans <<start, end>> of the groups closed so far].  The first one is
\* the match re reports.
RECURSIVE Matches(_, _, _, _)
Matches(p, s, i, g) ==
    CASE p.op = "chr" ->
             IF i < Len(s) /\ s[i + 1] \in p.set THEN <<[e |-> i + 1, g |-> g]>> ELSE <<>>
      [] p.op = "notchr" ->
             IF i < Len(s) /\ s[i + 1] \notin p.set THEN <<[e |-> i + 1, g |-> g]>> ELSE <<>>
      [] p.op = "lit" ->
             IF /\ i + Len(p.chars) <= Len(s)
                /\ \A k \in 1..Len(p.chars) : LowerChar(s[i + k]) = p.chars[k]
             THEN <<[e |-> i + Len(p.chars), g |-> g]>> ELSE <<>>
      [] p.op = "wb" ->
             IF (i >= 1 /\ s[i] \in WordChars) # (i < Len(s) /\ s[i + 1] \in WordChars)
             THEN <<[e |-> i, g |-> g]>> ELSE <<>>
      [] p.op = "eos" ->
             IF i = Len(s) \/ (i = Len(s) - 1 /\ s[Len(s)] = "\n")
             THEN <<[e |-> i, g |-> g]>> ELSE <<>>
      [] p.op = "cat" ->
             IF p.parts = <<>> THEN <<[e |-> i, g |-> g]>>
             ELSE LET first == Matches(Head(p.parts), s, i, g)
                  IN  Concat([k \in 1..Len(first) |->
                                 Matches(Cat(Tail(p.parts)), s, first[k].e, first[k].g)])
      [] p.op = "alt" ->
             Concat([k \in 1..Len(p.parts) |-> Matches(p.parts[k], s, i, g)])
      [] p.op = "rep" /\ p.of.op \in {"chr", "notchr"} ->
             RunMatches(p, i, g,
                        RunLength(p.of, s, i,
                                  IF p.bounded /\ p.max < Len(s) - i THEN p.max
                                  ELSE Len(s) - i))
      [] p.op = "rep" /\ p.of.op \notin {"chr", "notchr"} ->
             LET once == IF p.bounded /\ p.max = 0 THEN <<>>
                         ELSE SelectSeq(Matches(p.of, s, i, g), LAMBDA m : m.e > i)
                 rest == [p EXCEPT !.min = IF p.min > 0 THEN p.min - 1 ELSE 0,
                                   !.max = IF p.max > 0 THEN p.max - 1 ELSE 0]
                 more == Concat([k \in 1..Len(once) |->
                                    Matches(rest, s, once[k].e, once[k].g)])
             IN  IF p.min = 0 THEN Append(more, [e |-> i, g |-> g]) ELSE more
      [] p.op = "grp" ->
             LET inner == Matches(p.of, s, i, g)
             IN  [k \in 1..Len(inner) |->
                     [e |-> inner[k].e, g |-> Append(inner[k].g, <<i, inner[k].e>>)]]

\* the match at the least of the offsets where p matches s, None when there
\* is none: [start |-> where it starts, e |-> where it ends, g |-> its groups]
LeftmostMatch(p, s, starts) ==
    IF starts = {} THEN None
    ELSE Some([start |-> Least(starts)] @@ Matches(p, s, Least(starts), <<>>)[1])

\* the leftmost match of p in s at or after offset i; re.search(p, s) is
\* SearchFrom(p, s, 0)
SearchFrom(p, s, i) ==
    LeftmostMatch(p, s, {j \in i..Len(s) : Matches(p, s, j, <<>>) # <<>>})

\* match.group(n)
Group(s, m, n) == SubSeq(s, m.g[n][1] + 1, m.g[n][2])

\* where the scan goes on after a match: past it, one further when it is empty
AfterMatch(m) == IF m.e > m.start THEN m.e ELSE m.e + 1

\* re.findall(p, s) for a pattern without capturing groups is
\* FindAllFrom(p, s, 0)
RECURSIVE FindAllFrom(_, _, _)
FindAllFrom(p, s, i) ==
    LET m == SearchFrom(p, s, i)
    IN  IF m = None THEN <<>>
        ELSE <<SubSeq(s, m[1].start + 1, m[1].e)>> \o FindAllFrom(p, s, AfterMatch(m[1]))

\* re.sub(p, repl, s) for a replacement without group references
RECURSIVE SubFrom(_, _, _, _)
SubFrom(p, repl, s, i) ==
    LET m == SearchFrom(p, s, i)
    IN  IF m = None THEN SubSeq(s, i + 1, Len(s))
        ELSE SubSeq(s, i + 1, m[1].start) \o repl
                 \o (IF m[1].e > m[1].start THEN <<>>
                     ELSE SubSeq(s, m[1].e + 1, m[1].e + 1))
                 \o SubFrom(p, repl, s, AfterMatch(m[1]))

Sub(p, repl, s) == SubFrom(p, repl, s, 0)

----------------------------------------------------------------------------
(* tools/date_parser.py: extract_dates_from_text *)

\* (?:Jan(?:uary)?|Feb(?:ruary)?|...|Dec(?:ember)?)
MonthName ==
    Alt(<<Cat(<<LitI(<<"J", "a", "n">>), Rep(LitI(<<"u", "a", "r", "y">>), 0, 1)>>),
          Cat(<<LitI(<<"F", "e", "b">>), Rep(LitI(<<"r", "u", "a", "r", "y">>), 0, 1)>>),
          Cat(<<LitI(<<"M", "a", "r">>), Rep(LitI(<<"c", "h">>), 0, 1)>>),
          Cat(<<LitI(<<"A", "p", "r">>), Rep(LitI(<<"i", "l">>), 0, 1)>>),
          LitI(<<"M", "a", "y">>),
          Cat(<<LitI(<<"J", "u", "n">>), Rep(LitI(<<"e">>), 0, 1)>>),
          Cat(<<LitI(<<"J", "u", "l">>), Rep(LitI(<<"y">>), 0, 1)>>),
          Cat(<<LitI(<<"A", "u", "g">>), Rep(LitI(<<"u", "s", "t">>), 0, 1)>>),
          Cat(<<LitI(<<"S", "e", "p">>), Rep(LitI(<<"t", "e", "m", "b", "e", "r">>), 0, 1)>>),
          Cat(<<LitI(<<"O", "c", "t">>), Rep(LitI(<<"o", "b", "e", "r">>), 0, 1)>>),
          Cat(<<LitI(<<"N", "o", "v">>), Rep(LitI(<<"e", "m", "b", "e", "r">>), 0, 1)>>),
          Cat(<<LitI(<<"D", "e", "c">>), Rep(LitI(<<"e", "m", "b", "e", "r">>), 0, 1)>>)>>)

\* the four date patterns, date_parser.py lines 67-75
DatePatterns == <<
    Cat(<<WB, Rep(Chr(DigitChars), 1, 2), Chr({"/", "-", "."}), Rep(Chr(DigitChars), 1, 2), Chr({"/", "-", "."}),
          Rep(Chr(DigitChars), 2, 4), WB>>),
    Cat(<<WB, MonthName, AtLeast(Chr(Whitespace), 1), Rep(Chr(DigitChars), 1, 2), Rep(Chr({","}), 0, 1),
          AtLeast(Chr(Whitespace), 1), Rep(Chr(DigitChars), 4, 4), WB>>),
    Cat(<<WB, Rep(Chr(DigitChars), 1, 2), AtLeast(Chr(Whitespace), 1), MonthName, AtLeast(Chr(Whitespace), 1),
          Rep(Chr(DigitChars), 4, 4), WB>>),
    Cat(<<WB, Rep(Chr(DigitChars), 4, 4), Chr({"/", "-", "."}), Rep(Chr(DigitChars), 1, 2), Chr({"/", "-", "."}),
          Rep(Chr(DigitChars), 1, 2), WB>>)
>>

\* a slip in lines 77-82: a date is made up when the text holds none
extract_dates_from_text_Default(text) ==
    IF Concat([k \in 1..Len(DatePatterns) |-> FindAllFrom(DatePatterns[k], text, 0)]) = <<>>
    THEN <<<<"0", "1", "/", "0", "1", "/", "1", "9", "7", "0">>>>
    ELSE Concat([k \in 1..Len(DatePatterns) |-> FindAllFrom(DatePatterns[k], text, 0)])

extract_dates_from_text(text) ==
    IF text = <<>> THEN <<>>
    ELSE Concat([k \in 1..Len(DatePatterns) |-> FindAllFrom(DatePatterns[k], text, 0)])

----------------------------------------------------------------------------
(* tools/description_cleaner.py *)

\* MERCHANT_NORMALIZATIONS, in the order of the dictionary
MERCHANT_NORMALIZATIONS == <<
    <<<<"A", "M", "Z", "N">>,
      <<"A", "m", "a", "z", "o", "n">>>>,
    <<<<"A", "M", "A", "Z", "O", "N", "C", "O", "M">>,
      <<"A", "m", "a", "z", "o", "n">>>>,
    <<<<"A", "M", "A", "Z", "O", "N", ".", "C", "O", "M">>,
      <<"A", "m", "a", "z", "o", "n">>>>,
    <<<<"A", "M", "Z", "N", "M", "K", "T", "P", "L", "C", "E">>,
      <<"A", "m", "a", "z", "o", "n", " ", "M", "a", "r", "k", "e", "t", "p", "l", "a", "c", "e">>>>,
    <<<<"W", "M">>,
      <<"W", "a", "l", "m", "a", "r", "t">>>>,
    <<<<"W", "A", "L", "M", "A", "R", "T">>,
      <<"W", "a", "l", "m", "a", "r", "t">>>>,
    <<<<"W", "A", "L", "M", " ", "S", "U", "P", "E", "R", "C", "E", "N", "T", "E", "R">>,
      <<"W", "a", "l", "m", "a", "r", "t">>>>,
    <<<<"S", "Q">>,
      <<"S", "q", "u", "a", "r", "e">>>>,
    <<<<"S", "Q", " ", "*">>,
      <<"S", "q", "u", "a", "r", "e">>>>,
    <<<<"S", "T", "A", "R", "B", "U", "C", "K", "S">>,
      <<"S", "t", "a", "r", "b", "u", "c", "k", "s">>>>,
    <<<<"S", "B", "U", "X">>,
      <<"S", "t", "a", "r", "b", "u", "c", "k", "s">>>>,
    <<<<"M", "C", "D", "O", "N", "A", "L", "D">>,
      <<"M", "c", "D", "o", "n", "a", "l", "d", "'", "s">>>>,
    <<<<"M", "C", "D">>,
      <<"M", "c", "D", "o", "n", "a", "l", "d", "'", "s">>>>,
    <<<<"C", "O", "S", "T", "C", "O">>,
      <<"C", "o", "s", "t", "c", "o">>>>,
    <<<<"C", "O", "S", "T", "C", "O", " ", "W", "H", "S", "E">>,
      <<"C", "o", "s", "t", "c", "o">>>>,
    <<<<"C", "O", "S", "T", "C", "O", " ", "G", "A", "S">>,
      <<"C", "o", "s", "t", "c", "o", " ", "G", "a", "s">>>>,
    <<<<"U", "B", "E", "R">>,
      <<"U", "b", "e", "r">>>>,
    <<<<"U", "B", "E", "R", " ", "*">>,
      <<"U", "b", "e", "r">>>>,
    <<<<"U", "B", "E", "R", " ", "E", "A", "T", "S">>,
      <<"U", "b", "e", "r", " ", "E", "a", "t", "s">>>>,
    <<<<"U", "B", "E", "R", "E", "A", "T", "S">>,
      <<"U", "b", "e", "r", " ", "E", "a", "t", "s">>>>,
    <<<<"D", "O", "O", "R", "D", "A", "S", "H">>,
      <<"D", "o", "o", "r", "D", "a", "s", "h">>>>,
    <<<<"G", "R", "U", "B", "H", "U", "B">>,
      <<"G", "r", "u", "b", "h", "u", "b">>>>,
    <<<<"I", "N", "S", "T", "A", "C", "A", "R", "T">>,
      <<"I", "n", "s", "t", "a", "c", "a", "r", "t">>>>,
    <<<<"L", "Y", "F", "T">>,
      <<"L", "y", "f", "t">>>>,
    <<<<"L", "Y", "F", "T", " ", "*">>,
      <<"L", "y", "f", "t">>>>,
    <<<<"V", "E", "N", "M", "O">>,
      <<"V", "e", "n", "m", "o">>>>,
    <<<<"P", "A", "Y", "P", "A", "L">>,
      <<"P", "a", "y", "P", "a", "l">>>>,
    <<<<"P", "A", "Y", "P", "A", "L", " ", "*">>,
      <<"P", "a", "y", "P", "a", "l">>>>,
    <<<<"Z", "E", "L", "L", "E">>,
      <<"Z", "e", "l", "l", "e">>>>,
    <<<<"C", "A", "S", "H", " ", "A", "P", "P">>,
      <<"C", "a", "s", "h", " ", "A", "p", "p">>>>,
    <<<<"S", "Q", "C", "*", "C", "A", "S", "H", " ", "A", "P", "P">>,
      <<"C", "a", "s", "h", " ", "A", "p", "p">>>>,
    <<<<"T", "A", "R", "G", "E", "T">>,
      <<"T", "a", "r", "g", "e", "t">>>>,
    <<<<"T", "G", "T">>,
      <<"T", "a", "r", "g", "e", "t">>>>,
    <<<<"T", "G", "T", "C", "M">>,
      <<"T", "a", "r", "g", "e", "t">>>>,
    <<<<"K", "R", "O", "G", "E", "R">>,
      <<"K", "r", "o", "g", "e", "r">>>>,
    <<<<"T", "R", "A", "D", "E", "R", " ", "J", "O", "E">>,
      <<"T", "r", "a", "d", "e", "r", " ", "J", "o", "e", "'", "s">>>>,
    <<<<"W", "H", "O", "L", "E", "F", "D", "S">>,
      <<"W", "h", "o", "l", "e", " ", "F", "o", "o", "d", "s">>>>,
    <<<<"W", "H", "O", "L", "E", " ", "F", "O", "O", "D", "S">>,
      <<"W", "h", "o", "l", "e", " ", "F", "o", "o", "d", "s">>>>,
    <<<<"A", "M", "Z", "N", " ", "W", "H", "O", "L", "E", " ", "F", "O", "O", "D", "S">>,
      <<"W", "h", "o", "l", "e", " ", "F", "o", "o", "d", "s">>>>,
    <<<<"N", "E", "T", "F", "L", "I", "X">>,
      <<"N", "e", "t", "f", "l", "i", "x">>>>,
    <<<<"N", "F", "L", "X">>,
      <<"N", "e", "t", "f", "l", "i", "x">>>>,
    <<<<"S", "P", "O", "T", "I", "F", "Y">>,
      <<"S", "p", "o", "t", "i", "f", "y">>>>,
    <<<<"H", "U", "L", "U">>,
      <<"H", "u", "l", "u">>>>,
    <<<<"D", "I", "S", "N", "E", "Y", " ", "P", "L", "U", "S">>,
      <<"D", "i", "s", "n", "e", "y", "+">>>>,
    <<<<"D", "I", "S", "N", "E", "Y", "+">>,
      <<"D", "i", "s", "n", "e", "y", "+">>>>
>>

COMMON_PREFIX_SUFFIX == <<
    <<"P", "O", "S", " ", "T", "R", "A", "N", "S", "A", "C", "T", "I", "O", "N">>,
    <<"P", "O", "S", " ", "P", "U", "R", "C", "H", "A", "S", "E">>,
    <<"D", "E", "B", "I", "T", " ", "C", "A", "R", "D", " ", "P", "U", "R", "C", "H", "A", "S", "E">>,
    <<"A", "T", "M", " ", "W", "I", "T", "H", "D", "R", "A", "W", "A", "L">>,
    <<"O", "N", "L", "I", "N", "E", " ", "P", "A", "Y", "M", "E", "N", "T">>,
    <<"E", "-", "T", "R", "A", "N", "S", "F", "E", "R">>,
    <<"A", "U", "T", "O", "P", "A", "Y">>,
    <<"A", "C", "H", " ", "P", "A", "Y", "M", "E", "N", "T">>,
    <<"A", "C", "H", " ", "D", "E", "P", "O", "S", "I", "T">>,
    <<"D", "I", "R", "E", "C", "T", " ", "D", "E", "P", "O", "S", "I", "T">>,
    <<"D", "I", "R", "E", "C", "T", " ", "D", "E", "B", "I", "T">>,
    <<"P", "U", "R", "C", "H", "A", "S", "E", " ", "A", "U", "T", "H", "O", "R", "I", "Z", "E", "D", " ", "O", "N">>,
    <<"R", "E", "C", "U", "R", "R", "I", "N", "G", " ", "P", "A", "Y", "M", "E", "N", "T">>,
    <<"C", "H", "E", "C", "K", " ", "C", "A", "R", "D">>,
    <<"C", "H", "E", "C", "K", " ", "#">>,
    <<"C", "K", "C", "D">>,
    <<"C", "H", "E", "C", "K", "C", "A", "R", "D">>,
    <<"P", "A", "Y", "P", "A", "L", " ", "D", "E", "S", ":", "I", "N", "S", "T", " ", "X", "F", "E", "R">>,
    <<"P", "A", "Y", "P", "A", "L", " ", "I", "N", "S", "T", " ", "X", "F", "E", "R">>,
    <<"P", "Y", "M", "T", " ", "I", "D", ":">>,
    <<"R", "E", "F", " ", "#">>,
    <<"R", "E", "F", "E", "R", "E", "N", "C", "E", " ", "#">>,
    <<"T", "R", "A", "N", "S", "A", "C", "T", "I", "O", "N", " ", "#">>,
    <<"A", "U", "T", "H", "O", "R", "I", "Z", "A", "T", "I", "O", "N", " ", "C", "O", "D", "E">>
>>

\* lines 107-109, for the prefixes lo..hi of the list, in its order: each
\* prefix, with the whitespace after it, is removed wherever it occurs and
\* whatever its case (an empty description has nothing to remove)
RECURSIVE RemovePrefixes(_, _, _)
RemovePrefixes(description, lo, hi) ==
    IF description = <<>> \/ lo > hi THEN description
    ELSE IF lo = hi
    THEN Sub(Cat(<<LitI(COMMON_PREFIX_SUFFIX[lo]), AtLeast(Chr(Whitespace), 0)>>), <<>>,
             description)
    ELSE RemovePrefixes(RemovePrefixes(description, lo, (lo + hi) \div 2),
                        (lo + hi) \div 2 + 1, hi)

\* lines 112-114: r'\b\d{2}/\d{2}/\d{2,4}\b$', then r'\b\d{6,}\b$', then
\* r'#\d{4,}$'
RemoveTrailing(description) ==
    IF description = <<>> THEN description
    ELSE Sub(Cat(<<Chr({"#"}), AtLeast(Chr(DigitChars), 4), EOS>>), <<>>,
             Sub(Cat(<<WB, AtLeast(Chr(DigitChars), 6), WB, EOS>>), <<>>,
                 Sub(Cat(<<WB, Rep(Chr(DigitChars), 2, 2), Chr({"/"}),
                           Rep(Chr(DigitChars), 2, 2), Chr({"/"}),
                           Rep(Chr(DigitChars), 2, 4), WB, EOS>>),
                     <<>>, description)))

\* re.sub(r'\s+', ' ', s).strip()
CollapseWhitespace(s) == IF s = <<>> THEN s ELSE Strip(Sub(AtLeast(Chr(Whitespace), 1), <<" ">>, s))

\* lines 120-127, for the entries lo..hi of the dictionary, in its order: the
\* abbreviation, when it occurs in the upper-cased description, is replaced as
\* a whole word and whatever its case by the full name
RECURSIVE NormalizeMerchants(_, _, _)
NormalizeMerchants(description, lo, hi) ==
    IF description = <<>> \/ lo > hi THEN description
    ELSE IF lo = hi
    THEN IF HasSubstring(Upper(description), MERCHANT_NORMALIZATIONS[lo][1])
         THEN Sub(Cat(<<WB, LitI(MERCHANT_NORMALIZATIONS[lo][1]), WB>>),
                  MERCHANT_NORMALIZATIONS[lo][2], description)
         ELSE description
    ELSE NormalizeMerchants(NormalizeMerchants(description, lo, (lo + hi) \div 2),
                            (lo + hi) \div 2 + 1, hi)

\* the length of the first word of a string that starts with one
FirstWordLen(t) ==
    IF \E i \in 1..Len(t) : t[i] \in Whitespace
    THEN (CHOOSE i \in 1..Len(t) :
              t[i] \in Whitespace /\ \A j \in 1..(i - 1) : t[j] \notin Whitespace) - 1
    ELSE Len(t)

\* str.split()
RECURSIVE Split(_)
Split(s) ==
    IF s = <<>> THEN <<>>
    ELSE IF s[1] \in Whitespace THEN Split(LStrip(s))
    ELSE <<SubSeq(s, 1, FirstWordLen(s))>> \o Split(SubSeq(s, FirstWordLen(s) + 1, Len(s)))

\* ' '.join(words)
RECURSIVE Join(_)
Join(words) ==
    IF words = <<>> THEN <<>>
    ELSE IF Len(words) = 1 THEN words[1]
    ELSE words[1] \o <<" ">> \o Join(Tail(words))

\* lines 135-138: a word of several characters that is upper case (str.isupper():
\* it holds a cased character, and no lower-case one) is kept, and any other
\* word goes through str.capitalize()
CapitalizeWord(word) ==
    IF /\ \E i \in 1..Len(word) : word[i] \in DOMAIN LowerOf
       /\ \A i \in 1..Len(word) : word[i] \notin DOMAIN UpperOf
       /\ Len(word) > 1
    THEN word
    ELSE IF word = <<>> THEN <<>>
    ELSE Upper(<<word[1]>>) \o Lower(Tail(word))

\* lines 131-140
CapitalizeWords(words) == IF words = <<>> THEN <<>> ELSE Join([k \in 1..Len(words) |-> CapitalizeWord(words[k])])

\* lines 104-117: the description the merchant replacement starts from
BeforeMerchants(description) ==
    CollapseWhitespace(RemoveTrailing(
        RemovePrefixes(Strip(description), 1, Len(COMMON_PREFIX_SUFFIX))))

\* lines 120-127: every entry of the dictionary, in its order
AllMerchants(description) == NormalizeMerchants(description, 1, Len(MERCHANT_NORMALIZATIONS))

clean_description(description) ==
    IF description = <<>> THEN <<>>
    ELSE CapitalizeWords(Split(AllMerchants(BeforeMerchants(description))))

----------------------------------------------------------------------------
(* agents/transaction_interpretation_agent.py *)

\* A JSON value as json.loads returns it: None, a str, an int or a float
JNull == [t |-> "null", s |-> <<>>, n |-> Zero]
JStr(s) == [t |-> "str", s |-> s, n |-> Zero]
JInt(n) == [t |-> "int", s |-> <<>>, n |-> [m |-> n, s |-> 0]]
JFloat(x) == [t |-> "float", s |-> <<>>, n |-> x]

\* truthiness of a JSON value: None, "", 0 and 0.0 are falsy
JTruthy(v) ==
    CASE v.t = "null" -> FALSE
      [] v.t = "str" -> v.s # <<>>
      [] OTHER -> v.n # Zero

\* str(n) for n >= 0
RECURSIVE NatString(_)
NatString(n) ==
    IF n < 10 THEN <<DigitChar(n)>> ELSE Append(NatString(n \div 10), DigitChar(n % 10))

\* the s digits of the fraction f / 10^s
RECURSIVE FractionString(_, _)
FractionString(f, s) ==
    IF s = 0 THEN <<>> ELSE Append(FractionString(f \div 10, s - 1), DigitChar(f % 10))

\* repr of a positive float below 0.0001, given its significant digits and the
\* exponent of ten below zero: d[.ddd]e-XX, the exponent of two digits at least
ExponentString(digits, exponent) ==
    <<Head(digits)>> \o (IF Len(digits) > 1 THEN <<".">> \o Tail(digits) ELSE <<>>)
        \o <<"e", "-">> \o (IF exponent < 10 THEN <<"0">> ELSE <<>>) \o NatString(exponent)

\* str(a) for a float a >= 0 below 1e16: exponent notation when the first
\* significant digit is in the fifth decimal place or after it, and otherwise
\* positional notation, the shortest decimal that reads back as a, with ".0"
\* when it is whole
UnsignedString(a, digits) ==
    IF a.m # 0 /\ a.s - Len(digits) >= 4
    THEN ExponentString(digits, a.s - Len(digits) + 1)
    ELSE NatString(a.m \div Pow10(a.s)) \o <<".">>
             \o (IF a.s = 0 THEN <<"0">> ELSE FractionString(a.m % Pow10(a.s), a.s))

\* str(x) for a float x with abs(x) < 1e16
FloatString(x) ==
    (IF IsNeg(x) THEN <<"-">> ELSE <<>>) \o UnsignedString(Abs(x), NatString(Abs(x).m))

\* str(v)
JString(v) ==
    CASE v.t = "null" -> <<"N", "o", "n", "e">>
      [] v.t = "str" -> v.s
      [] v.t = "int" -> (IF IsNeg(v.n) THEN <<"-">> ELSE <<>>) \o NatString(Abs(v.n).m)
      [] v.t = "float" -> FloatString(v.n)

\* pydantic takes a JSON value for an Optional[str] field when it is None or
\* a str, and raises ValidationError otherwise
IsOptionalStr(v) == v.t \in {"null", "str"}
OptionalStr(v) == IF v.t = "str" THEN Some(v.s) ELSE None

\* The raw_text of a record is either the serialisation of a JSON object,
\* held as the object json.loads returns for it (keys that are absent hold
\* None, as dict.get gives), or text that json.loads rejects.
JsonText(obj) == [kind |-> "object", obj |-> obj, text |-> <<>>]
PlainText(text) ==
    [kind |-> "text",
     obj |-> [Date |-> JNull, Description |-> JNull, Amount |-> JNull, Credit |-> JNull,
              Debit |-> JNull],
     text |-> text]

\* raw_text.strip().startswith('{') and raw_text.strip().endswith('}')
LooksLikeJson(raw_text) ==
    \/ raw_text.kind = "object"
    \/ LET stripped == Strip(raw_text.text)
       IN  stripped # <<>> /\ Head(stripped) = "{" /\ stripped[Len(stripped)] = "}"

\* json.loads(raw_text): the object, or None for JSONDecodeError
JsonLoads(raw_text) == IF raw_text.kind = "object" THEN Some(raw_text.obj) ELSE None

RawTransactionData(raw_text, source_file_name) ==
    [raw_text |-> raw_text, source_file_name |-> source_file_name]

\* unique_id is a fresh uuid4 that nothing reads
ExtractedTransaction(raw_text_reference, potential_date_str, potential_description_str, potential_amount_str, potential_credit_str, potential_debit_str, confidence_score, extraction_errors) ==
    [raw_text_reference |-> raw_text_reference,
     potential_date_str |-> potential_date_str,
     potential_description_str |-> potential_description_str,
     potential_amount_str |-> potential_amount_str,
     potential_credit_str |-> potential_credit_str,
     potential_debit_str |-> potential_debit_str,
     confidence_score |-> confidence_score,
     extraction_errors |-> extraction_errors]

\* a confidence score, in hundredths
Confidence(hundredths) == Normalise(hundredths, 2)

\* lines 74-107: the fields of a structured row.  None stands for the
\* ValidationError of ExtractedTransaction, which line 197 catches.
ExtractStructuredFields(raw_text, json_data) ==
    LET potential_date_str == json_data.Date
        potential_description_str == json_data.Description
        potential_amount_str == json_data.Amount
        potential_credit_str == json_data.Credit
        potential_debit_str == json_data.Debit
        confidence_scores ==
            [date |-> IF JTruthy(potential_date_str) THEN Confidence(95) ELSE Zero,
             description |-> IF JTruthy(potential_description_str) THEN Confidence(95) ELSE Zero,
             amount |-> IF JTruthy(potential_amount_str) THEN Confidence(95) ELSE Zero]
        extraction_errors ==
            (IF ~JTruthy(potential_date_str) THEN <<"No date found in JSON data">> ELSE <<>>)
            \o (IF ~JTruthy(potential_description_str)
                THEN <<"No description found in JSON data">> ELSE <<>>)
            \o (IF /\ ~JTruthy(potential_amount_str)
                   /\ ~JTruthy(potential_credit_str)
                   /\ ~JTruthy(potential_debit_str)
                THEN <<"No amount found in JSON data">> ELSE <<>>)
        amount_str == IF JTruthy(potential_amount_str)
                      THEN Some(CSVPrefix \o JString(potential_amount_str))
                      ELSE None
    IN  IF ~IsOptionalStr(potential_date_str) \/ ~IsOptionalStr(potential_description_str)
        THEN None
        ELSE Some(ExtractedTransaction(
                 raw_text,
                 OptionalStr(potential_date_str),
                 OptionalStr(potential_description_str),
                 amount_str,
                 IF JTruthy(potential_credit_str) THEN Some(JString(potential_credit_str))
                 ELSE None,
                 IF JTruthy(potential_debit_str) THEN Some(JString(potential_debit_str))
                 ELSE None,
                 confidence_scores,
                 extraction_errors))

\* [\d,]+\.?\d*
DigitsAndCommas ==
    Cat(<<AtLeast(Chr(DigitChars \cup {","}), 1), Rep(Chr({"."}), 0, 1), AtLeast(Chr(DigitChars), 0)>>)

\* the five amount patterns, lines 125-136
AmountPatterns == <<
    Cat(<<Chr({"$", "£", "€", "¥"}), AtLeast(Chr(Whitespace), 0), DigitsAndCommas>>),
    Cat(<<WB, Rep(Chr(DigitChars), 1, 3), AtLeast(Cat(<<Chr({","}), Rep(Chr(DigitChars), 3, 3)>>), 0),
          Chr({"."}), Rep(Chr(DigitChars), 2, 2), WB>>),
    Cat(<<WB, Rep(Chr(DigitChars), 1, 3), AtLeast(Cat(<<Chr({".", ","}), Rep(Chr(DigitChars), 3, 3)>>), 0),
          Rep(Cat(<<Chr({".", ","}), Rep(Chr(DigitChars), 2, 2)>>), 0, 1), WB>>),
    Cat(<<Chr({"("}), Rep(Chr({"$"}), 0, 1), DigitsAndCommas, Chr({")"})>>),
    Cat(<<Chr({"-"}), Rep(Chr({"$"}), 0, 1), DigitsAndCommas>>)
>>

\* r'(debit|dr)[\s:]*([^cr]*)(credit|cr)[\s:]*([^\n]*)' under re.IGNORECASE
DebitCreditPattern ==
    Cat(<<Grp(Alt(<<LitI(<<"d", "e", "b", "i", "t">>), LitI(<<"d", "r">>)>>)),
          AtLeast(Chr(Whitespace \cup {":"}), 0),
          Grp(AtLeast(NotChr({"c", "r", "C", "R"}), 0)),
          Grp(Alt(<<LitI(<<"c", "r", "e", "d", "i", "t">>), LitI(<<"c", "r">>)>>)),
          AtLeast(Chr(Whitespace \cup {":"}), 0),
          Grp(AtLeast(NotChr({"\n"}), 0))>>)

\* lines 170-175: each of the strings lo..hi of those found is removed from
\* the text wherever it occurs
RECURSIVE RemoveEach(_, _, _, _)
RemoveEach(text, found, lo, hi) ==
    IF text = <<>> \/ lo > hi THEN text
    ELSE IF lo = hi THEN RemoveSubstring(text, found[lo])
    ELSE RemoveEach(RemoveEach(text, found, lo, (lo + hi) \div 2), found,
                    (lo + hi) \div 2 + 1, hi)

\* lines 138-141
PotentialAmounts(text) ==
    Concat([k \in 1..Len(AmountPatterns) |-> FindAllFrom(AmountPatterns[k], text, 0)])

\* a slip in lines 170-171: the dates found are left in the text
PotentialDescription_KeepsDates(text, potential_dates, potential_amounts) ==
    CollapseWhitespace(RemoveEach(text, potential_amounts, 1, Len(potential_amounts)))

\* lines 167-178
PotentialDescription(text, potential_dates, potential_amounts) ==
    CollapseWhitespace(
        RemoveEach(RemoveEach(text, potential_dates, 1, Len(potential_dates)),
                   potential_amounts, 1, Len(potential_amounts)))

\* a slip in lines 153-161: the first amount found becomes the combined
\* candidate even when the debit/credit pattern is found
MinedFields_AmountAlways(raw_text, potential_dates, potential_amounts, debit_credit_match, potential_description_str) ==
    ExtractedTransaction(
        raw_text,
        IF potential_dates # <<>> THEN Some(potential_dates[1]) ELSE None,
        Some(potential_description_str),
        IF potential_amounts # <<>> THEN Some(potential_amounts[1]) ELSE None,
        IF debit_credit_match # None
        THEN Some(Strip(Group(raw_text.text, debit_credit_match[1], 4))) ELSE None,
        IF debit_credit_match # None
        THEN Some(Strip(Group(raw_text.text, debit_credit_match[1], 2))) ELSE None,
        [date |-> IF potential_dates # <<>> THEN Confidence(80) ELSE Zero,
         description |-> IF potential_description_str # <<>> THEN Confidence(60) ELSE Zero,
         amount |-> IF debit_credit_match # None THEN Confidence(90)
                    ELSE IF potential_amounts # <<>> THEN Confidence(70)
                    ELSE Zero],
        (IF potential_dates = <<>> THEN <<"No date found">> ELSE <<>>)
        \o (IF debit_credit_match = None /\ potential_amounts = <<>>
            THEN <<"No amount found">> ELSE <<>>)
        \o (IF potential_description_str = <<>> THEN <<"No description found">> ELSE <<>>))

\* lines 115-121, 143-161 and 180-195: the candidates, the confidence scores
\* and the extraction errors, given what the patterns found
MinedFields(raw_text, potential_dates, potential_amounts, debit_credit_match, potential_description_str) ==
    ExtractedTransaction(
        raw_text,
        IF potential_dates # <<>> THEN Some(potential_dates[1]) ELSE None,
        Some(potential_description_str),
        IF debit_credit_match = None /\ potential_amounts # <<>>
        THEN Some(potential_amounts[1]) ELSE None,
        IF debit_credit_match # None
        THEN Some(Strip(Group(raw_text.text, debit_credit_match[1], 4))) ELSE None,
        IF debit_credit_match # None
        THEN Some(Strip(Group(raw_text.text, debit_credit_match[1], 2))) ELSE None,
        [date |-> IF potential_dates # <<>> THEN Confidence(80) ELSE Zero,
         description |-> IF potential_description_str # <<>> THEN Confidence(60) ELSE Zero,
         amount |-> IF debit_credit_match # None THEN Confidence(90)
                    ELSE IF potential_amounts # <<>> THEN Confidence(70)
                    ELSE Zero],
        (IF potential_dates = <<>> THEN <<"No date found">> ELSE <<>>)
        \o (IF debit_credit_match = None /\ potential_amounts = <<>>
            THEN <<"No amount found">> ELSE <<>>)
        \o (IF potential_description_str = <<>> THEN <<"No description found">> ELSE <<>>))

\* lines 113-195: the fields mined from free text, given the dates and the
\* amounts found in it
ExtractTextFields(raw_text, potential_dates, potential_amounts) ==
    Some(MinedFields(raw_text, potential_dates, potential_amounts,
                     SearchFrom(DebitCreditPattern, raw_text.text, 0),
                     PotentialDescription(raw_text.text, potential_dates, potential_amounts)))

\* _extract_transaction_fields: the structured shortcut of lines 69-111 when
\* the text is a JSON object, the free text otherwise
extract_transaction_fields(raw_data) ==
    IF LooksLikeJson(raw_data.raw_text) /\ JsonLoads(raw_data.raw_text) # None
    THEN ExtractStructuredFields(raw_data.raw_text, JsonLoads(raw_data.raw_text)[1])
    ELSE ExtractTextFields(raw_data.raw_text, extract_dates_from_text(raw_data.raw_text.text),
                           PotentialAmounts(raw_data.raw_text.text))

\* lines 216-222: the date of the candidate, when there is a candidate
ParsedDate(extracted) ==
    IF Truthy(extracted.potential_date_str)
    THEN parse_date_robustly(extracted.potential_date_str)
    ELSE None

\* lines 245-248: the cleaned description of the candidate, "" without a candidate
CleanedDescription(extracted) ==
    IF Truthy(extracted.potential_description_str)
    THEN clean_description(extracted.potential_description_str[1])
    ELSE <<>>

\* the processing notes of a transaction that is returned, lines 220, 240-242, 248 and 252
ProcessingNotes(extracted, description) ==
    <<<<"D", "a", "t", "e", " ", "p", "a", "r", "s", "e", "d", " ", "f", "r", "o", "m", ":", " ">> \o extracted.potential_date_str[1],
      <<"A", "m", "o", "u", "n", "t", " ", "p", "a", "r", "s", "e", "d", " ", "f", "r", "o", "m", ":", " ">>
          \o (IF Truthy(extracted.potential_amount_str) THEN extracted.potential_amount_str
              ELSE IF Truthy(extracted.potential_credit_str)
              THEN extracted.potential_credit_str
              ELSE extracted.potential_debit_str)[1]>>
    \o (IF Truthy(extracted.potential_description_str)
        THEN <<<<"D", "e", "s", "c", "r", "i", "p", "t", "i", "o", "n", " ", "c", "l", "e", "a", "n", "e", "d", " ", "f", "r", "o", "m", ":", " ">> \o extracted.potential_description_str[1]>>
        ELSE <<>>)
    \o (IF description = <<>>
        THEN <<<<"U", "s", "e", "d", " ", "d", "e", "f", "a", "u", "l", "t", " ", "d", "e", "s", "c", "r", "i", "p", "t", "i", "o", "n", " ", "d", "u", "e", " ", "t", "o", " ", "m", "i", "s", "s", "i", "n", "g", " ", "o", "r", " ", "i", "n", "v", "a", "l", "i", "d", " ", "d", "e", "s", "c", "r", "i", "p", "t", "i", "o", "n">>>>
        ELSE <<>>)

\* a slip in lines 250-252: a record without a description is rejected
NormalizeParsed_DescriptionRequired(extracted, raw_data, parsed_date, parsed, description) ==
    IF parsed_date = None THEN None
    ELSE IF parsed.amount = None \/ parsed.transaction_type = None THEN None
    ELSE IF description = <<>> THEN None
    ELSE Some(NormalizedTransaction(parsed_date[1], description, parsed.amount[1],
                                    parsed.transaction_type[1], raw_data.source_file_name,
                                    ProcessingNotes(extracted, description)))

\* lines 224-262, given the parsed date, the parsed amount and type and the
\* cleaned description
NormalizeParsed(extracted, raw_data, parsed_date, parsed, description) ==
    IF parsed_date = None THEN None
    ELSE IF parsed.amount = None \/ parsed.transaction_type = None THEN None
    ELSE Some(NormalizedTransaction(
                  parsed_date[1],
                  IF description = <<>> THEN <<"U", "n", "k", "n", "o", "w", "n", " ", "T", "r", "a", "n", "s", "a", "c", "t", "i", "o", "n">> ELSE description,
                  parsed.amount[1],
                  parsed.transaction_type[1],
                  raw_data.source_file_name,
                  ProcessingNotes(extracted, description)))

\* _normalize_transaction
normalize_transaction(extracted, raw_data) ==
    NormalizeParsed(extracted, raw_data, ParsedDate(extracted),
                    parse_amount_and_type(extracted.potential_amount_str,
                                          extracted.potential_credit_str,
                                          extracted.potential_debit_str),
                    CleanedDescription(extracted))

\* lines 39-49: the transaction of one record, None when the record is skipped
NormalizeExtracted(extracted_transaction, raw_data) ==
    IF extracted_transaction = None THEN None
    ELSE normalize_transaction(extracted_transaction[1], raw_data)

----------------------------------------------------------------------------
(* Inputs *)

MaxLen == 5

\* every string of at most n characters over the alphabet
StringsUpTo(alphabet, n) == UNION {[1..k -> alphabet] : k \in 0..n}

AmountStrings == StringsUpTo({"0", "1", ",", ".", "-", "(", ")", "$"}, MaxLen)

\* The candidates of one call of parse_amount_and_type hold at most MaxSize
\* pieces and column characters between them, so that indicator words, signs,
\* zero and non-zero digits and separators meet in one call
MaxSize == 3

\* the strings made of exactly n pieces
RECURSIVE PieceStrings(_)
PieceStrings(n) ==
    IF n = 0 THEN {<<>>}
    ELSE {s \o p : s \in PieceStrings(n - 1),
                   p \in {<<"c", "r">>, <<"d", "r">>, <<"0">>, <<"1">>, <<"-">>, <<",">>, <<".">>, <<"$">>}}

\* combined candidates of n pieces: absent, free text, or tagged as structured
CombinedCandidates(n) ==
    (IF n = 0 THEN {None} ELSE {})
        \cup {Some(s) : s \in PieceStrings(n)}
        \cup {Some(CSVPrefix \o s) : s \in PieceStrings(n)}

\* credit and debit column candidates of n characters
ColumnCandidates(n) ==
    (IF n = 0 THEN {None} ELSE {}) \cup {Some(s) : s \in [1..n -> {"0", "1", "-"}]}

\* Date strings: "n1/n2/yyyy" written from numbers up to MaxDateNum (beyond
\* the longest month), with or without a leading zero and a trailing comma
MaxDateNum == 32

\* str(n), zero-padded to two digits when padded
NumberString(n, padded) ==
    IF n >= 10 THEN <<DigitChar(n \div 10), DigitChar(n % 10)>>
    ELSE IF padded THEN <<"0", DigitChar(n)>>
    ELSE <<DigitChar(n)>>

YearString(y) ==
    <<DigitChar(y \div 1000), DigitChar((y \div 100) % 10), DigitChar((y \div 10) % 10),
      DigitChar(y % 10)>>

DateString(n1, n2, y, padded, noise) ==
    NumberString(n1, padded) \o <<"/">> \o NumberString(n2, padded) \o <<"/">>
        \o YearString(y) \o noise

TrailingNoise == {<<>>, <<",">>}

\* strings that hold no date
NoDateStrings == {<<>>, <<"x">>, <<"1", "/", "x">>}

\* years beyond the calendar (20255, 2147483647) and beyond a C int
\* (2147483648, 99999999999, and the latter behind a zero)
LongYears == {
    <<"2", "0", "2", "5", "5">>,
    <<"2", "1", "4", "7", "4", "8", "3", "6", "4", "7">>,
    <<"2", "1", "4", "7", "4", "8", "3", "6", "4", "8">>,
    <<"9", "9", "9", "9", "9", "9", "9", "9", "9", "9", "9">>,
    <<"0", "9", "9", "9", "9", "9", "9", "9", "9", "9", "9", "9">>
}

\* arguments that are not strings: the ints 0 and 20250731
NotStrings == {<<"int", 0>>, <<"int", 20250731>>}

\* Amounts given to the NormalizedTransaction constructor: whole cents
MaxCents == 12

CentAmounts == {Normalise(c, 2) : c \in 0..MaxCents} \cup {Neg(Normalise(c, 2)) : c \in 0..MaxCents}

----------------------------------------------------------------------------
(* Specification of extract_numeric_amount over every amount string *)

InitNum ==
    /\ call \in {[fn |-> "extract_numeric_amount", amount_str |-> Some(s)] : s \in AmountStrings}
    /\ ret = None
    /\ pc = "call"
    /\ locals = <<>>

ExtractNumericAmount ==
    /\ call.fn = "extract_numeric_amount"
    /\ pc = "call"
    /\ ret' = extract_numeric_amount(call.amount_str)
    /\ pc' = "done"
    /\ UNCHANGED <<call, locals>>

NextNum == ExtractNumericAmount

SpecNum == InitNum /\ [][NextNum]_vars

----------------------------------------------------------------------------
(* Specification of parse_amount_and_type over every triple of candidates *)

InitAmt ==
    /\ \E k \in 0..MaxSize, i \in 0..MaxSize, j \in 0..MaxSize :
           /\ k + i + j <= MaxSize
           /\ \E a \in CombinedCandidates(k), c \in ColumnCandidates(i),
                 d \in ColumnCandidates(j) :
                  call = [fn |-> "parse_amount_and_type", amount_str |-> a,
                          credit_str |-> c, debit_str |-> d]
    /\ ret = None
    /\ pc = "call"
    /\ locals = <<>>

ParseAmountAndType ==
    /\ call.fn = "parse_amount_and_type"
    /\ pc = "call"
    /\ ret' = parse_amount_and_type(call.amount_str, call.credit_str, call.debit_str)
    /\ pc' = "done"
    /\ UNCHANGED <<call, locals>>

NextAmt == ParseAmountAndType

SpecAmt == InitAmt /\ [][NextAmt]_vars

----------------------------------------------------------------------------
(* Specification of parse_date_robustly over date strings *)

InitDate ==
    /\ \/ \E n1 \in 0..MaxDateNum, n2 \in 0..MaxDateNum, y \in {2024, 2025},
             padded \in BOOLEAN, noise \in TrailingNoise :
              call = [fn |-> "parse_date_robustly",
                      date_str |-> Some(DateString(n1, n2, y, padded, noise)),
                      numbers |-> <<n1, n2, y>>]
       \/ \E o \in {None} \cup {Some(s) : s \in NoDateStrings} \cup NotStrings :
              call = [fn |-> "parse_date_robustly", date_str |-> o, numbers |-> <<>>]
       \/ \E n1 \in {1, 12, 13}, n2 \in {1, 12, 13}, y \in LongYears :
              call = [fn |-> "parse_date_robustly",
                      date_str |-> Some(NumberString(n1, FALSE) \o <<"/">>
                                            \o NumberString(n2, FALSE) \o <<"/">> \o y),
                      numbers |-> <<>>]
    /\ ret = None
    /\ pc = "call"
    /\ locals = <<>>

\* pc = "raised" when an exception leaves the call
ParseDateRobustly ==
    /\ call.fn = "parse_date_robustly"
    /\ pc = "call"
    /\ ret' = parse_date_robustly(call.date_str)
    /\ pc' = IF ParseDateOutcome(call.date_str).raises = "none" THEN "done" ELSE "raised"
    /\ UNCHANGED <<call, locals>>

NextDate == ParseDateRobustly

SpecDate == InitDate /\ [][NextDate]_vars

----------------------------------------------------------------------------
(* Specification of the two ways a NormalizedTransaction comes to exist *)

InitTxn ==
    /\ \E how \in {"NormalizedTransaction", "model_validate"}, a \in CentAmounts,
          k \in {"Credit", "Debit"} :
           call = [fn |-> how,
                   fields |-> [date |-> Date(2025, 7, 31), description |-> <<"x">>,
                               amount |-> a, transaction_type |-> k,
                               original_source_file |-> <<"f">>,
                               processing_notes |-> <<>>]]
    /\ ret = None
    /\ pc = "call"
    /\ locals = <<>>

Construct ==
    /\ call.fn = "NormalizedTransaction"
    /\ pc = "call"
    /\ ret' = Some(NormalizedTransaction(call.fields.date, call.fields.description,
                                         call.fields.amount, call.fields.transaction_type,
                                         call.fields.original_source_file,
                                         call.fields.processing_notes))
    /\ pc' = "done"
    /\ UNCHANGED <<call, locals>>

ModelValidate ==
    /\ call.fn = "model_validate"
    /\ pc = "call"
    /\ ret' = Some(model_validate(call.fields))
    /\ pc' = "done"
    /\ UNCHANGED <<call, locals>>

NextTxn == Construct \/ ModelValidate

SpecTxn == InitTxn /\ [][NextTxn]_vars

----------------------------------------------------------------------------
(* Records given to process_raw_transactions *)

SourceFile == <<"b", "a", "n", "k", ".", "c", "s", "v">>

Row(date, description, amount, credit, debit) ==
    RawTransactionData(
        JsonText([Date |-> date, Description |-> description, Amount |-> amount,
                  Credit |-> credit, Debit |-> debit]),
        SourceFile)

\* the structured row of the end-to-end scenario
ExampleRow ==
    Row(JStr(<<"0", "7", "/", "3", "1", "/", "2", "0", "2", "5">>), JStr(<<"T", "e", "s", "t", " ", "T", "r", "a", "n", "s", "a", "c", "t", "i", "o", "n">>), JFloat(Normalise(12345, 2)), JNull, JNull)

\* Amount cells.  Numbers: whole cents up to MaxCents, of either sign, as
\* floats, and the whole numbers among them as ints too; numbers below a
\* hundredth of a cent (0.0001, 0.00001, -0.00001, 0.000012); and cells that
\* pandas leaves as text
AmountCells ==
    {JFloat(Normalise(c, 2)) : c \in (0 - MaxCents)..MaxCents}
        \cup {JInt(n) : n \in (0 - MaxCents)..MaxCents}
        \cup {JFloat(Normalise(1, 4)), JFloat(Normalise(1, 5)), JFloat(Normalise(-1, 5)),
              JFloat(Normalise(12, 6))}
        \cup {JStr(<<>>), JStr(<<"0">>), JStr(<<"0", ".", "0", "0">>), JStr(<<"1", ",", "5">>), JStr(<<"1", ",", "2", "3", "4", ".", "5", "6">>), JStr(<<"$", "5">>),
         JStr(<<"-", "5">>), JStr(<<"(", "5", ")">>), JStr(<<"5", " ", "c", "r">>), JStr(<<"5", " ", "d", "r">>), JStr(<<"-", "5", " ", "c", "r">>), JStr(<<"x">>)}

\* the Credit and Debit cells the cross product of rows is built from
FewColumns == {JNull, JFloat(Normalise(250, 2)), JStr(<<"0">>)}

\* Structured rows: every amount cell in an otherwise plain row, and every
\* combination of a few cells of each column.  Date cells: absent, month-first,
\* day-first only, no calendar date, a number.  Description cells: absent,
\* plain, with a prefix, a merchant and a trailing id, a prefix and nothing
\* else, a number.
Rows ==
    {Row(JStr(<<"0", "7", "/", "3", "1", "/", "2", "0", "2", "5">>), JStr(<<"T", "e", "s", "t", " ", "T", "r", "a", "n", "s", "a", "c", "t", "i", "o", "n">>), a, JNull, JNull) :
         a \in AmountCells}
        \cup {Row(d, t, a, c, b) :
                  d \in {JNull, JStr(<<"0", "7", "/", "3", "1", "/", "2", "0", "2", "5">>), JStr(<<"3", "1", "/", "0", "7", "/", "2", "0", "2", "5">>), JStr(<<"1", "3", "/", "3", "2", "/", "2", "0", "2", "5">>), JInt(20250731)},
                  t \in {JNull, JStr(<<"T", "e", "s", "t", " ", "T", "r", "a", "n", "s", "a", "c", "t", "i", "o", "n">>), JStr(<<"P", "O", "S", " ", "P", "U", "R", "C", "H", "A", "S", "E", " ", "a", "m", "z", "n", " ", "1", "2", "3", "4", "5", "6", "7">>),
                         JStr(<<"P", "O", "S", " ", "P", "U", "R", "C", "H", "A", "S", "E">>), JInt(7)},
                  a \in {JNull, JFloat(Normalise(12345, 2)), JFloat(Normalise(-500, 2)), JInt(0), JStr(<<"5", " ", "c", "r">>), JStr(<<"x">>)},
                  c \in FewColumns, b \in FewColumns}

\* Free text is made of fragments separated by one space
Fragments == {
    <<"0", "7", "/", "3", "1", "/", "2", "0", "2", "5">>,
    <<"T", "e", "s", "t">>,
    <<"$", "1", "2", "3", ".", "4", "5">>,
    <<"0", ".", "0", "0">>,
    <<"A", "M", "Z", "N">>
}

MaxFragments == 3

\* the texts of exactly n fragments
RECURSIVE TextsOf(_)
TextsOf(n) ==
    IF n = 0 THEN {<<>>}
    ELSE IF n = 1 THEN Fragments
    ELSE {t \o <<" ">> \o f : t \in TextsOf(n - 1), f \in Fragments}

\* texts with a credit keyword or a plus sign beside the amount, and no debit
\* and credit columns
CreditWordTexts == {
    <<"0", "7", "/", "3", "1", "/", "2", "0", "2", "5", " ", "D", "e", "p", "o", "s", "i", "t", " ", "$", "1", "2", "3", ".", "4", "5">>,
    <<"0", "7", "/", "3", "1", "/", "2", "0", "2", "5", " ", "R", "e", "f", "u", "n", "d", " ", "1", ",", "2", "3", "4", ".", "5", "6">>,
    <<"0", "7", "/", "3", "1", "/", "2", "0", "2", "5", " ", "S", "a", "l", "a", "r", "y", " ", "+", "5", ".", "0", "0">>,
    <<"0", "7", "/", "3", "1", "/", "2", "0", "2", "5", " ", "I", "n", "t", "e", "r", "e", "s", "t", " ", "(", "5", ".", "0", "0", ")">>
}

\* Free texts: those of up to MaxFragments fragments, a text in braces that
\* is not JSON, texts with a debit and a credit column side by side, and
\* texts with a credit keyword
Texts ==
    UNION {TextsOf(n) : n \in 0..MaxFragments}
        \cup {<<"{", "0", "7", "/", "3", "1", "/", "2", "0", "2", "5", " ", "T", "e", "s", "t", " ", "$", "1", "2", "3", ".", "4", "5", "}">>}
        \cup {
            <<"0", "7", "/", "3", "1", "/", "2", "0", "2", "5", " ", "D", "e", "b", "i", "t", ":", " ", "5", ".", "0", "0", " ", "C", "r", "e", "d", "i", "t", ":", " ", "0">>,
            <<"0", "7", "/", "3", "1", "/", "2", "0", "2", "5", " ", "D", "r", " ", "0", " ", "C", "r", " ", "5", ".", "0", "0">>,
            <<"0", "7", "/", "3", "1", "/", "2", "0", "2", "5", " ", "D", "r", " ", "5", " ", "C", "r", " ", "5">>,
            <<"D", "r", " ", "5", " ", "C", "r", " ", "0">>
        }
        \cup CreditWordTexts

\* the free-text record of the end-to-end scenario
ExampleText == RawTransactionData(PlainText(<<"0", "7", "/", "3", "1", "/", "2", "0", "2", "5", " ", "T", "e", "s", "t", " ", "T", "r", "a", "n", "s", "a", "c", "t", "i", "o", "n", " ", "$", "1", "2", "3", ".", "4", "5">>), SourceFile)

\* the labelled free-text record of the end-to-end scenario
LabelledText == RawTransactionData(PlainText(<<"D", "a", "t", "e", ":", " ", "0", "7", "/", "3", "1", "/", "2", "0", "2", "5", " ", "D", "e", "s", "c", "r", "i", "p", "t", "i", "o", "n", ":", " ", "T", "e", "s", "t", " ", "T", "r", "a", "n", "s", "a", "c", "t", "i", "o", "n", " ", "A", "m", "o", "u", "n", "t", ":", " ", "$", "1", "2", "3", ".", "4", "5">>), SourceFile)

Records == Rows \cup {RawTransactionData(PlainText(t), SourceFile) : t \in Texts} \cup {LabelledText}

\* Batches of several records are drawn from a few records of each fate:
\* kept as Credit, kept as Debit, dropped for its date, not extracted at all
FewRecords == {
    ExampleRow,
    ExampleText,
    Row(JStr(<<"0", "7", "/", "3", "1", "/", "2", "0", "2", "5">>), JNull, JFloat(Normalise(-500, 2)), JNull, JNull),
    Row(JStr(<<"1", "3", "/", "3", "2", "/", "2", "0", "2", "5">>), JStr(<<"T", "e", "s", "t", " ", "T", "r", "a", "n", "s", "a", "c", "t", "i", "o", "n">>), JInt(5), JNull, JNull),
    Row(JInt(20250731), JStr(<<"T", "e", "s", "t", " ", "T", "r", "a", "n", "s", "a", "c", "t", "i", "o", "n">>), JInt(5), JNull, JNull),
    RawTransactionData(PlainText(<<"T", "e", "s", "t", " ", "$", "5">>), SourceFile)
}

MaxBatch == 2

Batches == {<<r>> : r \in Records} \cup UNION {[1..n -> FewRecords] : n \in 0..MaxBatch}

----------------------------------------------------------------------------
(* agents/raw_data_extraction_agent.py: extract_from_file and its readers.
   The file system and the libraries (pandas, csv, PyPDF2, python-docx, the
   OCR tool) are outside the program: what they do to one call is drawn with
   the arguments.  exists is os.path.exists(file_path); prologue is the code
   of a reader before its own try (lines 77, 147, 233, 263-268); opening is
   the opening of the file (raises, an encrypted PDF, a CSV with no content);
   units holds what each row, page, paragraph or image does: text is a
   record, an empty paragraph or an image without text, or an exception,
   and for a PDF page what page.extract_text() does (no text, only
   whitespace, fewer than 100 characters, 100 characters or more, an
   exception) with, in ocr, what the OCR of the page does (a text, no text, an
   exception of pdf2image or of the image); fallback is the csv module after
   pandas has failed. *)

SupportedTypes == {"CSV", "PDF", "DOCX", "JPEG", "PNG"}

\* a slip in lines 40-64: no try around the body of extract_from_file
Dispatch_NoCatchAll(exists, file_type, prologue) ==
    IF ~exists THEN "empty"
    ELSE IF file_type \notin SupportedTypes THEN "empty"
    ELSE IF prologue = "raises" THEN "raised"
    ELSE "reader"

\* lines 40-64: the empty list for a missing file (lines 45-47), for an
\* unsupported type (lines 58-60) and for an exception that reaches the
\* handler of lines 62-64; the reader otherwise
Dispatch(exists, file_type, prologue) ==
    IF ~exists THEN "empty"
    ELSE IF file_type \notin SupportedTypes THEN "empty"
    ELSE IF prologue = "raises" THEN "empty"
    ELSE "reader"

\* a slip in lines 193-222: a page whose OCR fails gives no record
UnitResult_DropsFailedPage(file_type, event, number) ==
    IF file_type # "PDF"
    THEN IF event.text = "record" THEN <<[raw_text |-> "text", number |-> number]>> ELSE <<>>
    ELSE IF event.text = "long" THEN <<[raw_text |-> "text", number |-> number]>>
    ELSE IF event.ocr = "text" THEN <<[raw_text |-> "ocr text", number |-> number]>>
    ELSE <<>>

\* the RawTransactionData of a unit, its text abstracted to its kind.  Lines
\* 243-244 and 285-286: an empty paragraph and an image without text give
\* nothing.  Lines 161-222: a PDF page of 100 characters or more gives its
\* text; a page with less has its text replaced by the text of the OCR when
\* there is one, and when the OCR gives none or raises the record holds
\* text or "[OCR FAILED] ...", the marker when the page text is None or ""
UnitResult(file_type, event, number) ==
    IF file_type # "PDF"
    THEN IF event.text = "record" THEN <<[raw_text |-> "text", number |-> number]>> ELSE <<>>
    ELSE IF event.text = "long" THEN <<[raw_text |-> "text", number |-> number]>>
    ELSE IF event.ocr = "text" THEN <<[raw_text |-> "ocr text", number |-> number]>>
    ELSE IF event.text = "none" THEN <<[raw_text |-> "[OCR FAILED]", number |-> number]>>
    ELSE <<[raw_text |-> event.text, number |-> number]>>

MaxUnits == 2

UnitEvents(file_type) ==
    IF file_type = "PDF"
    THEN {[text |-> "long", ocr |-> "none"], [text |-> "raises", ocr |-> "none"]}
             \cup [text : {"none", "blank", "short"}, ocr : {"text", "none", "raises"}]
    ELSE [text : IF file_type = "CSV" THEN {"record", "raises"}
                 ELSE {"record", "empty", "raises"},
          ocr : {"none"}]

\* the units a file of this type can hold: an image is one unit
UnitsOf(file_type) ==
    UNION {[1..n -> UnitEvents(file_type)] :
               n \in IF file_type \in {"JPEG", "PNG"} THEN {1} ELSE 0..MaxUnits}

Openings(file_type) ==
    {"ok", "raises"} \cup (IF file_type = "PDF" THEN {"encrypted"} ELSE {})
                     \cup (IF file_type = "CSV" THEN {"no content"} ELSE {})

InitExtract ==
    /\ \E file_type \in SupportedTypes \cup {"TXT", "csv"}, exists \in BOOLEAN,
          prologue \in {"ok", "raises"} :
           \E opening \in Openings(file_type), units \in UnitsOf(file_type),
              fallback \in IF file_type = "CSV" THEN {"ok", "raises"} ELSE {"ok"} :
               call = [fn |-> "extract_from_file", file_type |-> file_type,
                       exists |-> exists, prologue |-> prologue, opening |-> opening,
                       units |-> units, fallback |-> fallback]
    /\ ret = None
    /\ pc = "call"
    /\ locals = <<>>

\* lines 40-64, up to the call of the reader; pc = "raised" when an exception
\* leaves the call
ExtractFromFile ==
    /\ call.fn = "extract_from_file"
    /\ pc = "call"
    /\ LET to == Dispatch(call.exists, call.file_type, call.prologue)
       IN  /\ pc' = (CASE to = "empty" -> "done" [] to = "raised" -> "raised"
                       [] to = "reader" -> "open")
           /\ ret' = IF to = "empty" THEN Some(<<>>) ELSE ret
           /\ locals' = IF to = "reader"
                        THEN [result |-> <<>>, i |-> 1]
                        ELSE locals
    /\ UNCHANGED call

\* the opening of the file inside the reader's try: lines 81-98, 151-158,
\* 237 and 272; a failure is caught by the reader, which returns its result
OpenFile ==
    /\ call.fn = "extract_from_file"
    /\ pc = "open"
    /\ IF call.opening = "ok"
       THEN pc' = "units" /\ UNCHANGED ret
       ELSE pc' = "done" /\ ret' = Some(locals.result)
    /\ UNCHANGED <<call, locals>>

\* one row (lines 104-115), page (lines 161-214), paragraph (lines 240-253)
\* or image (lines 274-286): an exception on a page is logged and the next
\* page is read, an exception on a row makes pandas give way to the csv
\* module, any other exception ends the reader, which returns what it has
ReadUnit ==
    /\ call.fn = "extract_from_file"
    /\ pc = "units"
    /\ locals.i <= Len(call.units)
    /\ IF call.units[locals.i].text # "raises"
       THEN /\ locals' = [locals EXCEPT
                             !.result = @ \o UnitResult(call.file_type, call.units[locals.i],
                                                        locals.i),
                             !.i = @ + 1]
            /\ UNCHANGED <<ret, pc>>
       ELSE IF call.file_type = "PDF"
       THEN /\ locals' = [locals EXCEPT !.i = @ + 1]
            /\ UNCHANGED <<ret, pc>>
       ELSE IF call.file_type = "CSV"
       THEN /\ pc' = "fallback"
            /\ UNCHANGED <<ret, locals>>
       ELSE /\ pc' = "done"
            /\ ret' = Some(locals.result)
            /\ UNCHANGED locals
    /\ UNCHANGED call

\* lines 111-127: the csv module reads the content again and gives one record
\* for every line, the header included; when it fails too the reader returns
\* what it has
Fallback ==
    /\ call.fn = "extract_from_file"
    /\ pc = "fallback"
    /\ ret' = IF call.fallback = "ok"
              THEN Some(locals.result
                            \o [k \in 1..(Len(call.units) + 1) |->
                                   [raw_text |-> "line", number |-> k]])
              ELSE Some(locals.result)
    /\ pc' = "done"
    /\ UNCHANGED <<call, locals>>

\* the reader returns its result, and extract_from_file returns it
ReturnResult ==
    /\ call.fn = "extract_from_file"
    /\ pc = "units"
    /\ locals.i > Len(call.units)
    /\ ret' = Some(locals.result)
    /\ pc' = "done"
    /\ UNCHANGED <<call, locals>>

NextExtract == ExtractFromFile \/ OpenFile \/ ReadUnit \/ Fallback \/ ReturnResult

SpecExtract == InitExtract /\ [][NextExtract]_vars

----------------------------------------------------------------------------

(* Specification of clean_description over descriptions *)

\* Descriptions are made of parts separated by one space: merchant
\* abbreviations and the words that make longer abbreviations of them, a
\* bank prefix, a trailing id, date and reference, and plain words
DescriptionParts == {
    <<"A", "M", "Z", "N">>, <<"W", "H", "O", "L", "E", " ", "F", "O", "O", "D", "S">>, <<"U", "B", "E", "R">>, <<"E", "A", "T", "S">>, <<"C", "O", "S", "T", "C", "O">>, <<"G", "A", "S">>, <<"W", "H", "S", "E">>,
    <<"M", "C", "D">>, <<"S", "Q">>, <<"*", "C", "O", "F", "F", "E", "E">>, <<"w", "m">>, <<"P", "O", "S", " ", "P", "U", "R", "C", "H", "A", "S", "E">>, <<"1", "2", "3", "4", "5", "6", "7">>,
    <<"0", "7", "/", "3", "1", "/", "2", "0", "2", "5">>, <<"#", "1", "2", "3", "4">>, <<"T", "e", "s", "t">>, <<"c", "a", "f", "e">>
}

MaxParts == 2

\* the descriptions of exactly n parts
RECURSIVE DescriptionsOf(_)
DescriptionsOf(n) ==
    IF n = 0 THEN {<<>>}
    ELSE IF n = 1 THEN DescriptionParts
    ELSE {t \o <<" ">> \o f : t \in DescriptionsOf(n - 1), f \in DescriptionParts}

InitClean ==
    /\ \E n \in 0..MaxParts : \E s \in DescriptionsOf(n) :
           call = [fn |-> "clean_description", description |-> s]
    /\ ret = <<>>
    /\ pc = "call"
    /\ locals = <<>>

CleanDescription ==
    /\ call.fn = "clean_description"
    /\ pc = "call"
    /\ ret' = clean_description(call.description)
    /\ pc' = "done"
    /\ UNCHANGED <<call, locals>>

\* the description that came back is cleaned once more
CleanAgain ==
    /\ call.fn = "clean_description"
    /\ pc = "done"
    /\ locals' = [once |-> ret]
    /\ ret' = clean_description(ret)
    /\ pc' = "again"
    /\ UNCHANGED call

NextClean == CleanDescription \/ CleanAgain

SpecClean == InitClean /\ [][NextClean]_vars

----------------------------------------------------------------------------

(* Specification of TransactionInterpretationAgent.process_raw_transactions *)

Init ==
    /\ call \in {[fn |-> "process_raw_transactions", raw_data_list |-> b] : b \in Batches}
    /\ ret = None
    /\ pc = "call"
    /\ locals = <<>>

\* a slip in lines 41-49: a record that fails discards the transactions
\* collected so far
LoopTurn_FailureDiscards(before, extracted_transaction, normalized_transaction) ==
    [i |-> before.i + 1,
     extracted_transaction |-> extracted_transaction,
     normalized_transaction |-> IF extracted_transaction = None
                                THEN before.normalized_transaction
                                ELSE normalized_transaction,
     normalized_transactions |-> IF normalized_transaction = None THEN <<>>
                                 ELSE before.normalized_transactions \o normalized_transaction]

\* lines 39-49: the local variables after a turn of the loop that has mined
\* extracted_transaction and, when there is one, made normalized_transaction
\* of it (both None before the first turn, where Python leaves them unbound);
\* the continue of line 43 leaves normalized_transaction as it was
LoopTurn(before, extracted_transaction, normalized_transaction) ==
    [i |-> before.i + 1,
     extracted_transaction |-> extracted_transaction,
     normalized_transaction |-> IF extracted_transaction = None
                                THEN before.normalized_transaction
                                ELSE normalized_transaction,
     normalized_transactions |-> before.normalized_transactions \o normalized_transaction]

\* a slip in lines 41-49: a record without candidates is not skipped, and the
\* transaction of the record before it is appended once more
TurnOn_CarriesOver(before, raw_data, extracted_transaction) ==
    LoopTurn(before, extracted_transaction,
             IF extracted_transaction = None THEN before.normalized_transaction
             ELSE NormalizeExtracted(extracted_transaction, raw_data))

\* lines 41-49, given the candidates mined from raw_data
TurnOn(before, raw_data, extracted_transaction) ==
    LoopTurn(before, extracted_transaction, NormalizeExtracted(extracted_transaction, raw_data))

\* line 35
Begin ==
    /\ call.fn = "process_raw_transactions"
    /\ pc = "call"
    /\ locals' = [i |-> 1, extracted_transaction |-> None, normalized_transaction |-> None,
                  normalized_transactions |-> <<>>]
    /\ pc' = "loop"
    /\ UNCHANGED <<call, ret>>

\* lines 37-49: one turn of the loop
ProcessRecord ==
    /\ pc = "loop"
    /\ locals.i <= Len(call.raw_data_list)
    /\ locals' = TurnOn(locals, call.raw_data_list[locals.i],
                        extract_transaction_fields(call.raw_data_list[locals.i]))
    /\ UNCHANGED <<call, ret, pc>>

\* line 51
Return ==
    /\ pc = "loop"
    /\ locals.i > Len(call.raw_data_list)
    /\ ret' = Some(locals.normalized_transactions)
    /\ pc' = "done"
    /\ UNCHANGED <<call, locals>>

Next == Begin \/ ProcessRecord \/ Return

Spec == Init /\ [][Next]_vars

----------------------------------------------------------------------------
(* Properties of parse_amount_and_type, checked under SpecAmt *)

AmtDone == pc = "done" /\ call.fn = "parse_amount_and_type"

\* the candidate is present and extracts to a number
Parses(candidate) == Truthy(candidate) /\ extract_numeric_amount(candidate) # None

\* the candidate is present and extracts to a non-zero number
ParsesNonZero(candidate) ==
    Parses(candidate) /\ extract_numeric_amount(candidate)[1].m # 0

ValueOf(candidate) == extract_numeric_amount(candidate)[1]

HasCreditWord(candidate) == contains_credit_indicators(candidate[1])
HasDebitWord(candidate) == contains_debit_indicators(candidate[1])

\* C3: precedence credit, then debit, then combined.  A credit candidate that
\* parses to a non-zero number gives (abs(value), Credit) whatever the other
\* two are; failing that, a debit candidate that parses to a non-zero number
\* gives (-abs(value), Debit) whatever the combined candidate is; the combined
\* candidate decides only when neither column yields a non-zero number.
C3_ColumnPrecedence ==
    AmtDone =>
        /\ ParsesNonZero(call.credit_str) =>
               ret = AmountAndType(Abs(ValueOf(call.credit_str)), "Credit")
        /\ (~ParsesNonZero(call.credit_str) /\ ParsesNonZero(call.debit_str)) =>
               ret = AmountAndType(Neg(Abs(ValueOf(call.debit_str))), "Debit")
        /\ (~ParsesNonZero(call.credit_str) /\ ~ParsesNonZero(call.debit_str)) =>
               ret = parse_amount_and_type(call.amount_str, None, None)

\* credit "1", debit "1" and a combined "1": the credit column wins
C3_Witness ==
    /\ AmtDone
    /\ call.credit_str = Some(<<"1">>)
    /\ call.debit_str = Some(<<"1">>)
    /\ call.amount_str = Some(<<"1">>)
    /\ ret = AmountAndType([m |-> 1, s |-> 0], "Credit")

\* C4: a combined candidate that is not tagged as structured, holds no credit
\* or debit indicator word and parses to a positive value v, with no column
\* candidates, gives (-v, Debit).
C4_DefaultToExpense ==
    (/\ AmtDone
     /\ call.credit_str = None /\ call.debit_str = None
     /\ Parses(call.amount_str)
     /\ ~StartsWith(call.amount_str[1], CSVPrefix)
     /\ ~HasCreditWord(call.amount_str) /\ ~HasDebitWord(call.amount_str)
     /\ IsPos(ValueOf(call.amount_str)))
    => ret = AmountAndType(Neg(ValueOf(call.amount_str)), "Debit")

\* "$1" alone gives (-1, Debit)
C4_Witness ==
    /\ AmtDone
    /\ call.credit_str = None /\ call.debit_str = None
    /\ call.amount_str = Some(<<"$", "1">>)
    /\ ret = AmountAndType([m |-> -1, s |-> 0], "Debit")

\* C6 as stated: whenever none of the three candidates yields a parseable,
\* non-zero magnitude, parse_amount_and_type returns (None, None).
C6_FailsWithoutNonZeroMagnitude ==
    (/\ AmtDone
     /\ ~ParsesNonZero(call.credit_str)
     /\ ~ParsesNonZero(call.debit_str)
     /\ ~ParsesNonZero(call.amount_str))
    => ret = NoAmount

\* C6 as amended: parse_amount_and_type returns (None, None) exactly when
\* neither column candidate yields a parseable non-zero magnitude and the
\* combined candidate is absent, empty or unparseable; a combined candidate
\* that parses to zero then yields amount zero, with kind Credit when a credit
\* indicator word and no debit one matches and kind Debit otherwise.
C6_FailsWithoutParseableCombined ==
    AmtDone =>
        LET columns == ParsesNonZero(call.credit_str) \/ ParsesNonZero(call.debit_str)
        IN  /\ ret = NoAmount <=> (~columns /\ ~Parses(call.amount_str))
            /\ (~columns /\ Parses(call.amount_str) /\ ValueOf(call.amount_str).m = 0) =>
                   ret = AmountAndType(Zero,
                            IF HasCreditWord(call.amount_str) /\ ~HasDebitWord(call.amount_str)
                            THEN "Credit" ELSE "Debit")

\* a zero credit column, a zero debit column and a combined "0": (0, Debit)
C6_Witness ==
    /\ AmtDone
    /\ call.credit_str = Some(<<"0">>)
    /\ call.debit_str = Some(<<"0">>)
    /\ call.amount_str = Some(<<"0">>)
    /\ ret = AmountAndType(Zero, "Debit")

\* C7: when only the combined candidate decides, a negative value or a debit
\* indicator word gives (-abs(value), Debit) even if a credit indicator word
\* matches too; a credit indicator word gives (abs(value), Credit) only for a
\* non-negative value with no debit indicator word.
C7_DebitEvidenceWins ==
    (/\ AmtDone
     /\ ~ParsesNonZero(call.credit_str)
     /\ ~ParsesNonZero(call.debit_str)
     /\ Parses(call.amount_str))
    => LET value == ValueOf(call.amount_str)
           debit_evidence == IsNeg(value) \/ HasDebitWord(call.amount_str)
       IN  /\ debit_evidence => ret = AmountAndType(Neg(Abs(value)), "Debit")
           /\ (~debit_evidence /\ HasCreditWord(call.amount_str)) =>
                  ret = AmountAndType(Abs(value), "Credit")

\* "crdr1" carries both indicator words: (-1, Debit)
C7_Witness ==
    /\ AmtDone
    /\ call.credit_str = None /\ call.debit_str = None
    /\ call.amount_str = Some(<<"c", "r", "d", "r", "1">>)
    /\ ret = AmountAndType([m |-> -1, s |-> 0], "Debit")

----------------------------------------------------------------------------
(* Properties of extract_numeric_amount, checked under SpecNum *)

NumDone == pc = "done" /\ call.fn = "extract_numeric_amount" /\ call.amount_str # None

DigitsOf(s) == SelectSeq(s, LAMBDA c : c \in DigitChars)

\* whichever of "," and "." has the later last occurrence in s
LaterSeparator(s) == IF RIndex(s, ",") > RIndex(s, ".") THEN "," ELSE "."

Occurrences(s, c) == Cardinality({i \in 1..Len(s) : s[i] = c})

\* the number s denotes when the last occurrence of the later separator is
\* its decimal point and every other separator is dropped
DecimalPointReading(s) ==
    LET point == RIndex(s, LaterSeparator(s)) + 1
        fraction == {i \in (point + 1)..Len(s) : s[i] \in DigitChars}
    IN  Normalise(DigitsToNat(DigitsOf(s)), Cardinality(fraction))

\* C8: for an amount string holding both a comma and a period, the one that
\* appears later is the decimal point and every occurrence of the other is
\* dropped as thousands grouping: a returned number has that magnitude, and
\* a number is returned when the later separator occurs once among digits.
C8_LaterSeparatorIsDecimalPoint ==
    (NumDone /\ Contains(call.amount_str[1], ",") /\ Contains(call.amount_str[1], "."))
    => LET s == call.amount_str[1]
       IN  /\ ret # None => Abs(ret[1]) = DecimalPointReading(s)
           /\ (/\ Occurrences(s, LaterSeparator(s)) = 1
               /\ DigitsOf(s) # <<>>
               /\ ~Contains(s, "-"))
              => ret # None

\* "1.0,1" is 10.1
C8_Witness ==
    /\ NumDone
    /\ call.amount_str = Some(<<"1", ".", "0", ",", "1">>)
    /\ ret = Some([m |-> 101, s |-> 1])

Parenthesized(s) == Len(s) >= 2 /\ s[1] = "(" /\ s[Len(s)] = ")"

\* C9 as stated: every parseable parenthesized amount string gives a negative
\* value.
C9_ParenthesizedIsNegative ==
    (NumDone /\ Parenthesized(call.amount_str[1]) /\ ret # None) => IsNeg(ret[1])

\* C9 as amended: a parseable parenthesized amount string never gives a
\* positive value, and gives a negative one unless its magnitude is zero
\* ("(0)" gives -0.0, which is not below zero).
C9_ParenthesizedNeverPositive ==
    (NumDone /\ Parenthesized(call.amount_str[1]) /\ ret # None)
    => /\ ~IsPos(ret[1])
       /\ (\E i \in 1..Len(call.amount_str[1]) :
               call.amount_str[1][i] \in DigitChars \ {"0"}) => IsNeg(ret[1])

\* "($1)" is -1
C9_Witness ==
    /\ NumDone
    /\ call.amount_str = Some(<<"(", "$", "1", ")">>)
    /\ ret = Some([m |-> -1, s |-> 0])

----------------------------------------------------------------------------
(* Properties of parse_date_robustly, checked under SpecDate *)

DateDone == pc = "done" /\ call.fn = "parse_date_robustly"

\* C10: a date string "n1/n2/yyyy" whose month-first reading (month n1, day
\* n2) is a calendar date gives that reading, so for n1 and n2 both in 1..12
\* the month-first reading wins, and the day-first reading (day n1, month n2)
\* is returned only when the month-first one is no calendar date.
C10_MonthFirstWins ==
    (DateDone /\ call.numbers # <<>>)
    => LET n1 == call.numbers[1]
           n2 == call.numbers[2]
           y == call.numbers[3]
       IN  /\ ValidDate(y, n1, n2) => ret = Some(Date(y, n1, n2))
           /\ (n1 \in 1..12 /\ n2 \in 1..12) => ret = Some(Date(y, n1, n2))
           /\ (ret = Some(Date(y, n2, n1)) /\ n1 # n2) => ~ValidDate(y, n1, n2)

\* "03/04/2025" is March 4
C10_Witness ==
    /\ DateDone
    /\ call.date_str = Some(<<"0", "3", "/", "0", "4", "/", "2", "0", "2", "5">>)
    /\ ret = Some(Date(2025, 3, 4))

----------------------------------------------------------------------------
(* Properties of NormalizedTransaction, checked under SpecTxn *)

\* Credit implies amount >= 0 and Debit implies amount <= 0
SignMatchesKind(txn) ==
    /\ txn.transaction_type = "Credit" => ~IsNeg(txn.amount)
    /\ txn.transaction_type = "Debit" => ~IsPos(txn.amount)

\* C2: every way of constructing a NormalizedTransaction, direct construction
\* with any amount and kind included, yields an object whose sign matches its
\* kind.
C2_EveryConstructionEnforcesSign ==
    (pc = "done" /\ call.fn \in {"NormalizedTransaction", "model_validate"})
    => SignMatchesKind(ret[1])

----------------------------------------------------------------------------
(* Properties of process_raw_transactions, checked under Spec *)

\* process_raw_transactions has returned
Returned == pc = "done" /\ call.fn = "process_raw_transactions"

\* C1: every transaction that process_raw_transactions returns, for any batch
\* of records, structured or free text, has an amount >= 0 when its type is
\* Credit and an amount <= 0 when its type is Debit.
C1_ReturnedSignMatchesKind ==
    Returned => \A k \in 1..Len(ret[1]) : SignMatchesKind(ret[1][k])

\* a batch of a structured row and a free-text record has come back as a
\* Credit with a positive amount and a Debit with a negative one
C1_Witness ==
    /\ Returned
    /\ call.raw_data_list = <<ExampleRow, ExampleText>>
    /\ Len(ret[1]) = 2
    /\ ret[1][1].transaction_type = "Credit" /\ IsPos(ret[1][1].amount)
    /\ ret[1][2].transaction_type = "Debit" /\ IsNeg(ret[1][2].amount)

\* the Amount cell is one the structured shortcut tags: a number other than
\* zero, or text that reads as a number
IsAmount(v) ==
    CASE v.t \in {"int", "float"} -> v.n # Zero
      [] v.t = "str" -> v.s # <<>> /\ PyFloat(v.s) # None
      [] OTHER -> FALSE

\* the number the Amount cell holds
Literal(v) == IF v.t = "str" THEN PyFloat(v.s)[1] ELSE v.n

\* a structured row with a parseable Date, a Description, an Amount, no Credit,
\* no Debit, and no sign-context word
PlainStructuredRow(raw_data) ==
    /\ raw_data.raw_text.kind = "object"
    /\ raw_data.raw_text.obj.Date.t = "str"
    /\ parse_date_robustly(Some(raw_data.raw_text.obj.Date.s)) # None
    /\ raw_data.raw_text.obj.Description.t = "str"
    /\ raw_data.raw_text.obj.Description.s # <<>>
    /\ raw_data.raw_text.obj.Credit = JNull
    /\ raw_data.raw_text.obj.Debit = JNull
    /\ IsAmount(raw_data.raw_text.obj.Amount)
    /\ ~contains_credit_indicators(JString(raw_data.raw_text.obj.Amount))
    /\ ~contains_debit_indicators(JString(raw_data.raw_text.obj.Amount))

\* the transaction has the sign and the type that the literal amount asks for
TrustsLiteralSign(txn, literal) ==
    IF IsPos(literal)
    THEN txn.transaction_type = "Credit" /\ txn.amount = literal
    ELSE txn.transaction_type = "Debit" /\ ~IsPos(txn.amount)

\* the transaction of the end-to-end scenario
IsExampleTransaction(txn) ==
    /\ txn.date = Date(2025, 7, 31)
    /\ txn.description = <<"T", "e", "s", "t", " ", "T", "r", "a", "n", "s", "a", "c", "t", "i", "o", "n">>
    /\ txn.amount = Normalise(12345, 2)
    /\ txn.transaction_type = "Credit"

\* C5: a structured row with a parseable Date, a Description, an Amount, no
\* Credit or Debit and no sign-context word yields a transaction whose sign is
\* that of the Amount: Credit with the same amount when it is positive, Debit
\* when it is negative or zero, the scenario row giving 2025-07-31, "Test
\* Transaction", 123.45, Credit.
C5_StructuredSignIsTrusted ==
    (Returned /\ \A k \in 1..Len(call.raw_data_list) :
                     PlainStructuredRow(call.raw_data_list[k]))
    => /\ Len(ret[1]) = Len(call.raw_data_list)
       /\ \A k \in 1..Len(ret[1]) :
              /\ TrustsLiteralSign(ret[1][k], Literal(call.raw_data_list[k].raw_text.obj.Amount))
              /\ call.raw_data_list[k] = ExampleRow => IsExampleTransaction(ret[1][k])

\* the scenario row alone has come back as one Credit of 123.45
C5_Witness ==
    /\ Returned
    /\ call.raw_data_list = <<ExampleRow>>
    /\ Len(ret[1]) = 1
    /\ IsExampleTransaction(ret[1][1])

\* the rows C5 is about whose Amount str() writes in positional notation
\* do yield the transaction the literal sign asks for
C5_TrustedInPositionalNotation ==
    (Returned /\ \A k \in 1..Len(call.raw_data_list) :
                     /\ PlainStructuredRow(call.raw_data_list[k])
                     /\ ~Contains(JString(call.raw_data_list[k].raw_text.obj.Amount), "e"))
    => /\ Len(ret[1]) = Len(call.raw_data_list)
       /\ \A k \in 1..Len(ret[1]) :
              TrustsLiteralSign(ret[1][k], Literal(call.raw_data_list[k].raw_text.obj.Amount))

\* the record holds no date: no Date value in a structured row, no substring
\* of the shape of a date in free text
LacksDate(raw_data) ==
    IF LooksLikeJson(raw_data.raw_text) /\ JsonLoads(raw_data.raw_text) # None
    THEN ~JTruthy(JsonLoads(raw_data.raw_text)[1].Date)
    ELSE \A k \in 1..Len(DatePatterns) :
             SearchFrom(DatePatterns[k], raw_data.raw_text.text, 0) = None

\* the loop is about to process the record at position locals.i
AtRecord == pc = "loop" /\ locals.i <= Len(call.raw_data_list)

\* C12: a record that holds no date (free text without a date-shaped
\* substring, a structured row without a Date value) adds no transaction to
\* the result of process_raw_transactions, whatever amount and description
\* it holds.
C12_NoDateNoTransaction ==
    [][(AtRecord /\ LacksDate(call.raw_data_list[locals.i]))
       => locals'.normalized_transactions = locals.normalized_transactions]_vars

\* "Test $123.45", with a description and an amount, has been processed and
\* has given nothing
C12_Witness ==
    /\ pc = "loop"
    /\ call.raw_data_list
           = <<RawTransactionData(PlainText(<<"T", "e", "s", "t", " ", "$", "1", "2", "3", ".", "4", "5">>), SourceFile)>>
    /\ LacksDate(call.raw_data_list[1])
    /\ locals.i = 2
    /\ locals.normalized_transactions = <<>>

\* a turn of the loop has ended
AfterRecord == pc = "loop" /\ locals.i > 1

\* the date, or the amount and type, of the candidates cannot be parsed
DateFails(extracted) ==
    ~Truthy(extracted.potential_date_str) \/ parse_date_robustly(extracted.potential_date_str) = None
AmountFails(extracted) ==
    \/ parse_amount_and_type(extracted.potential_amount_str, extracted.potential_credit_str,
                             extracted.potential_debit_str).amount = None
    \/ parse_amount_and_type(extracted.potential_amount_str, extracted.potential_credit_str,
                             extracted.potential_debit_str).transaction_type = None

\* the description candidate is missing, empty, or cleaned to nothing
DescriptionFails(extracted) ==
    \/ ~Truthy(extracted.potential_description_str)
    \/ clean_description(extracted.potential_description_str[1]) = <<>>

\* C13: _normalize_transaction rejects the record when the date fails and when
\* the amount and type fail, and only then: a description that is missing,
\* empty or cleaned to nothing never rejects it, the transaction is emitted
\* with the description "Unknown Transaction", and every emitted transaction
\* has a non-empty description.
C13_OnlyDateAndAmountAreFatal ==
    (AfterRecord /\ locals.extracted_transaction # None)
    => /\ locals.normalized_transaction = None
          <=> \/ DateFails(locals.extracted_transaction[1])
              \/ AmountFails(locals.extracted_transaction[1])
       /\ (locals.normalized_transaction # None
           /\ DescriptionFails(locals.extracted_transaction[1]))
          => locals.normalized_transaction[1].description
                 = <<"U", "n", "k", "n", "o", "w", "n", " ", "T", "r", "a", "n", "s", "a", "c", "t", "i", "o", "n">>
       /\ \A k \in 1..Len(locals.normalized_transactions) :
              locals.normalized_transactions[k].description # <<>>

\* a row whose description "POS PURCHASE" is cleaned to nothing has given a
\* transaction described as "Unknown Transaction"
C13_Witness ==
    /\ Returned
    /\ call.raw_data_list
           = <<Row(JStr(<<"0", "7", "/", "3", "1", "/", "2", "0", "2", "5">>), JStr(<<"P", "O", "S", " ", "P", "U", "R", "C", "H", "A", "S", "E">>), JFloat(Normalise(12345, 2)), JNull, JNull)>>
    /\ Len(ret[1]) = 1
    /\ ret[1][1].description = <<"U", "n", "k", "n", "o", "w", "n", " ", "T", "r", "a", "n", "s", "a", "c", "t", "i", "o", "n">>

\* the candidate parse_amount_and_type takes the amount from (amount_parser.py
\* lines 31-48): the credit column when it extracts to a non-zero number, else
\* the debit column when it does, else the combined candidate
AmountSource(extracted) ==
    IF ParsesNonZero(extracted.potential_credit_str) THEN extracted.potential_credit_str[1]
    ELSE IF ParsesNonZero(extracted.potential_debit_str) THEN extracted.potential_debit_str[1]
    ELSE extracted.potential_amount_str[1]

\* the notes say where the date, the amount and the description came from
NotesNameTheSources(extracted, notes) ==
    /\ Len(notes) >= 3
    /\ notes[1] = <<"D", "a", "t", "e", " ", "p", "a", "r", "s", "e", "d", " ", "f", "r", "o", "m", ":", " ">> \o extracted.potential_date_str[1]
    /\ notes[2] = <<"A", "m", "o", "u", "n", "t", " ", "p", "a", "r", "s", "e", "d", " ", "f", "r", "o", "m", ":", " ">> \o AmountSource(extracted)
    /\ IF DescriptionFails(extracted)
       THEN notes[Len(notes)] = <<"U", "s", "e", "d", " ", "d", "e", "f", "a", "u", "l", "t", " ", "d", "e", "s", "c", "r", "i", "p", "t", "i", "o", "n", " ", "d", "u", "e", " ", "t", "o", " ", "m", "i", "s", "s", "i", "n", "g", " ", "o", "r", " ", "i", "n", "v", "a", "l", "i", "d", " ", "d", "e", "s", "c", "r", "i", "p", "t", "i", "o", "n">>
       ELSE notes[3] = <<"D", "e", "s", "c", "r", "i", "p", "t", "i", "o", "n", " ", "c", "l", "e", "a", "n", "e", "d", " ", "f", "r", "o", "m", ":", " ">> \o extracted.potential_description_str[1]

\* C14: every emitted transaction carries a processing note for its date, its
\* amount and its description, each naming the raw candidate that produced the
\* field; the amount note names whichever of the credit, debit or combined
\* candidate parse_amount_and_type took the amount from.
C14_NotesNameTheSources ==
    (AfterRecord /\ locals.extracted_transaction # None /\ locals.normalized_transaction # None)
    => NotesNameTheSources(locals.extracted_transaction[1],
                           locals.normalized_transaction[1].processing_notes)

\* C15: clean_description is idempotent: cleaning a cleaned description
\* returns it unchanged, for every input string.
C15_Idempotent ==
    (call.fn = "clean_description" /\ pc = "again") => ret = locals.once

CleanDone == pc = "done" /\ call.fn = "clean_description"

\* the abbreviation occurs in the description as whole words, whatever its case
HasWholeWords(description, abbrev) ==
    /\ HasSubstring(Upper(description), abbrev)
    /\ SearchFrom(Cat(<<WB, LitI(abbrev), WB>>), description, 0) # None

\* entry k of the dictionary is an abbreviation of several words that occurs
\* in the description as whole words, and no longer abbreviation that
\* contains it does
LongestKeyIn(description, k) ==
    /\ \E i \in 1..Len(MERCHANT_NORMALIZATIONS[k][1]) : MERCHANT_NORMALIZATIONS[k][1][i] = " "
    /\ HasWholeWords(description, MERCHANT_NORMALIZATIONS[k][1])
    /\ \A j \in 1..Len(MERCHANT_NORMALIZATIONS) :
           (/\ Len(MERCHANT_NORMALIZATIONS[j][1]) > Len(MERCHANT_NORMALIZATIONS[k][1])
            /\ HasSubstring(MERCHANT_NORMALIZATIONS[j][1], MERCHANT_NORMALIZATIONS[k][1]))
           => ~HasWholeWords(description, MERCHANT_NORMALIZATIONS[j][1])

\* the cleaned description when entry k of the dictionary is applied before
\* every other entry
LongestFirst(description, k) ==
    CapitalizeWords(Split(AllMerchants(
        Sub(Cat(<<WB, LitI(MERCHANT_NORMALIZATIONS[k][1]), WB>>),
            MERCHANT_NORMALIZATIONS[k][2], description))))

\* C16: a dictionary key of several words that the description contains as
\* whole words is never shadowed by a shorter key it contains: the result is
\* the one that replacing the longer key by its canonical name gives, not the
\* one that first rewriting a shorter key inside it gives.
C16_LongerKeyNotShadowed ==
    CleanDone
    => \A k \in 1..Len(MERCHANT_NORMALIZATIONS) :
           LongestKeyIn(BeforeMerchants(call.description), k)
           => ret = LongestFirst(BeforeMerchants(call.description), k)

\* the labelled text alone has come back
LabelledTextReturned == Returned /\ call.raw_data_list = <<LabelledText>>

\* one Debit of 123.45 on 2025-07-31 with this description
IsLabelledTransaction(transactions, description) ==
    /\ Len(transactions) = 1
    /\ transactions[1].date = Date(2025, 7, 31)
    /\ transactions[1].description = description
    /\ transactions[1].amount = Normalise(-12345, 2)
    /\ transactions[1].transaction_type = "Debit"

\* C17 as stated: the free-text record "Date: 07/31/2025 Description: Test
\* Transaction Amount: $123.45" alone yields exactly one transaction, dated
\* 2025-07-31, with a description equal to "Test Transaction", amount -123.45
\* and kind Debit.
C17_LabelledTextGivesTestTransaction ==
    LabelledTextReturned => IsLabelledTransaction(ret[1], <<"T", "e", "s", "t", " ", "T", "r", "a", "n", "s", "a", "c", "t", "i", "o", "n">>)

\* C17 as amended: that record alone yields exactly one transaction, dated
\* 2025-07-31, amount -123.45, kind Debit, whose description contains "Test
\* Transaction" and keeps the field labels: it is what is left of the text
\* once the date and the amounts found are taken out, "Date: Description:
\* Test Transaction Amount:".
C17_LabelledTextKeepsLabels ==
    LabelledTextReturned
    => /\ IsLabelledTransaction(ret[1], <<"D", "a", "t", "e", ":", " ", "D", "e", "s", "c", "r", "i", "p", "t", "i", "o", "n", ":", " ", "T", "e", "s", "t", " ", "T", "r", "a", "n", "s", "a", "c", "t", "i", "o", "n", " ", "A", "m", "o", "u", "n", "t", ":">>)
       /\ HasSubstring(ret[1][1].description, <<"T", "e", "s", "t", " ", "T", "r", "a", "n", "s", "a", "c", "t", "i", "o", "n">>)

\* the labelled text has come back as one transaction
C17_Witness == LabelledTextReturned /\ Len(ret[1]) = 1 /\ ret[1][1].transaction_type = "Debit"

\* the transaction of a record processed on its own, None when it fails
OutcomeOf(raw_data, extracted_transaction) == NormalizeExtracted(extracted_transaction, raw_data)
Outcome(raw_data) == OutcomeOf(raw_data, extract_transaction_fields(raw_data))

\* a row whose Date is a number: building the candidates raises inside
\* _extract_transaction_fields, which returns None
UnminedRow == Row(JInt(20250731), JStr(<<"T", "e", "s", "t", " ", "T", "r", "a", "n", "s", "a", "c", "t", "i", "o", "n">>), JInt(5), JNull, JNull)

\* what a turn of the loop that has ended with these local variables made of
\* its record
EmittedBy(after) ==
    IF after.extracted_transaction = None THEN None ELSE after.normalized_transaction

\* C18: failures are local to one record: a record whose mining or
\* normalization fails is skipped, leaving the transactions collected so far
\* as they are, and every other record is still processed; the call never
\* raises and returns the list, in the order of the records, with at most one
\* transaction for each record.
C18_FailuresAreLocal ==
    [][call.fn = "process_raw_transactions"
       => /\ pc' # "raised"
          /\ AtRecord
             => /\ locals'.i = locals.i + 1
                /\ locals'.normalized_transactions
                       = locals.normalized_transactions \o EmittedBy(locals')
          /\ (pc = "loop" /\ pc' = "done")
             => /\ locals.i = Len(call.raw_data_list) + 1
                /\ ret' = Some(locals.normalized_transactions)
                /\ Len(ret'[1]) <= Len(call.raw_data_list)]_vars

\* a row that is not mined, then the scenario row: one transaction, the
\* scenario row's
C18_Witness ==
    /\ Returned
    /\ call.raw_data_list = <<UnminedRow, ExampleRow>>
    /\ Outcome(UnminedRow) = None
    /\ Len(ret[1]) = 1
    /\ IsExampleTransaction(ret[1][1])

\* what the turn of the loop that has just ended made of its record
Emitted == EmittedBy(locals)

ExtractDone == pc = "done" /\ call.fn = "extract_from_file"

\* C20: extract_from_file never raises past its boundary: whatever the file,
\* the declared type and the failures of the readers and of the OCR tool, it
\* returns a list of records, which may be empty or partial, and the empty
\* list for a missing file and for an unsupported type.
C20_ExtractNeverRaises ==
    call.fn = "extract_from_file"
    => /\ pc # "raised"
       /\ pc = "done"
          => /\ ret # None
             /\ Len(ret[1]) <= 2 * Len(call.units) + 1
             /\ \A k \in 1..Len(ret[1]) : ret[1][k].number \in 1..(Len(call.units) + 1)
             /\ (~call.exists \/ call.file_type \notin SupportedTypes) => ret[1] = <<>>

\* a reader raised before its own try and the call returned the empty list
C20_Witness ==
    /\ ExtractDone
    /\ call.exists /\ call.file_type = "JPEG" /\ call.prologue = "raises"
    /\ ret = Some(<<>>)

\* a PDF that was opened: its pages have been read and the list has come back
PagesRead ==
    /\ ExtractDone
    /\ call.file_type = "PDF" /\ call.exists
    /\ call.prologue = "ok" /\ call.opening = "ok"

\* page k has no text or fewer than 100 characters and its OCR fails
OcrFailsOn(k) ==
    /\ call.units[k].text \in {"none", "blank", "short"}
    /\ call.units[k].ocr \in {"none", "raises"}

\* the records of page k in the list
RecordsOfPage(k) == SelectSeq(ret[1], LAMBDA r : r.number = k)

\* C21 as stated: for each page of an unencrypted PDF whose text is absent or
\* under 100 characters and whose OCR fails, exactly one record is emitted,
\* with the page's 1-based number and the failure marker as its text, and the
\* later pages are still processed.
C21_FailedOcrGivesMarker ==
    PagesRead
    => \A k \in 1..Len(call.units) :
           OcrFailsOn(k)
           => /\ RecordsOfPage(k) = <<[raw_text |-> "[OCR FAILED]", number |-> k]>>
              /\ \A j \in (k + 1)..Len(call.units) :
                     call.units[j].text # "raises" => Len(RecordsOfPage(j)) = 1

\* C21 as amended: such a page gives exactly one record with the page's
\* number, and the later pages are still processed; the text of the record is
\* the failure marker when the page has no text at all, and the page's own
\* text when it has some (whitespace, or fewer than 100 characters).
C21_FailedOcrKeepsPage ==
    PagesRead
    => \A k \in 1..Len(call.units) :
           OcrFailsOn(k)
           => /\ RecordsOfPage(k)
                    = <<[raw_text |-> IF call.units[k].text = "none" THEN "[OCR FAILED]"
                                      ELSE call.units[k].text,
                         number |-> k]>>
              /\ \A j \in (k + 1)..Len(call.units) :
                     call.units[j].text # "raises" => Len(RecordsOfPage(j)) = 1

\* a page without text whose OCR raises, then a page of text: the marker for
\* page 1 and the text of page 2
C21_Witness ==
    /\ PagesRead
    /\ call.units = <<[text |-> "none", ocr |-> "raises"], [text |-> "long", ocr |-> "none"]>>
    /\ ret = Some(<<[raw_text |-> "[OCR FAILED]", number |-> 1], [raw_text |-> "text", number |-> 2]>>)

\* missing evidence for the date and for the description is recorded in the
\* candidates as a zero confidence and an extraction error
MissingEvidenceNoted(extracted) ==
    /\ ~Truthy(extracted.potential_date_str)
       => /\ extracted.confidence_score.date = Zero
          /\ \E k \in 1..Len(extracted.extraction_errors) :
                 extracted.extraction_errors[k] \in {"No date found", "No date found in JSON data"}
    /\ ~Truthy(extracted.potential_description_str)
       => /\ extracted.confidence_score.description = Zero
          /\ \E k \in 1..Len(extracted.extraction_errors) :
                 extracted.extraction_errors[k]
                     \in {"No description found", "No description found in JSON data"}

-----------------------------------------------------------------------------
(* QuickBooksFormatterAgent: the CSV text is modelled as the sequence of its
   rows, each row the sequence of its fields as csv.writer writes them; the
   joining of fields by "," and of rows by "\r\n" is left out *)

\* date_parser.normalize_date_format: strftime("%m/%d/%Y") or ("%d/%m/%Y"); any
\* other format is answered with MM/DD/YYYY
normalize_date_format(date_obj, format_str) ==
    IF format_str = "DD/MM/YYYY"
    THEN DateString(date_obj.day, date_obj.month, date_obj.year, TRUE, <<>>)
    ELSE DateString(date_obj.month, date_obj.day, date_obj.year, TRUE, <<>>)

\* a string holding "x" for every " of s twice
RECURSIVE DoubleQuotes(_)
DoubleQuotes(s) ==
    IF s = <<>> THEN <<>>
    ELSE (IF Head(s) = "\"" THEN <<"\"", "\"">> ELSE <<Head(s)>>) \o DoubleQuotes(Tail(s))

\* csv.writer with QUOTE_MINIMAL: a field holding the delimiter, the quote
\* character or a line break is written between quotes
CsvField(s) ==
    IF \E k \in 1..Len(s) : s[k] \in {",", "\"", "\n", "\r"}
    THEN <<"\"">> \o DoubleQuotes(s) \o <<"\"">>
    ELSE s

\* one turn of the loop of _generate_three_column_csv
ThreeColumnRow(transaction, date_format) ==
    <<CsvField(normalize_date_format(transaction.date, date_format)),
      CsvField(transaction.description),
      CsvField(FloatString(transaction.amount))>>

FourColumnRow_SignedAmount(transaction, date_format) ==
    <<CsvField(normalize_date_format(transaction.date, date_format)),
      CsvField(transaction.description),
      IF IsNeg(transaction.amount) THEN CsvField(FloatString(Abs(transaction.amount))) ELSE <<>>,
      IF IsNeg(transaction.amount) THEN <<>> ELSE CsvField(FloatString(Abs(transaction.amount)))>>

\* one turn of the loop of _generate_four_column_csv
FourColumnRow(transaction, date_format) ==
    <<CsvField(normalize_date_format(transaction.date, date_format)),
      CsvField(transaction.description),
      IF transaction.transaction_type = "Debit"
      THEN CsvField(FloatString(Abs(transaction.amount))) ELSE <<>>,
      IF transaction.transaction_type = "Debit"
      THEN <<>> ELSE CsvField(FloatString(Abs(transaction.amount)))>>

ThreeColumnHeader == <<<<"D", "a", "t", "e">>, <<"D", "e", "s", "c", "r", "i", "p", "t", "i", "o", "n">>, <<"A", "m", "o", "u", "n", "t">>>>
FourColumnHeader == <<<<"D", "a", "t", "e">>, <<"D", "e", "s", "c", "r", "i", "p", "t", "i", "o", "n">>, <<"D", "e", "b", "i", "t">>, <<"C", "r", "e", "d", "i", "t">>>>

\* QuickBooksFormatterAgent.generate_csv
generate_csv(transactions, csv_format, date_format) ==
    IF csv_format = "3-column"
    THEN <<ThreeColumnHeader>>
             \o [k \in 1..Len(transactions) |-> ThreeColumnRow(transactions[k], date_format)]
    ELSE <<FourColumnHeader>>
             \o [k \in 1..Len(transactions) |-> FourColumnRow(transactions[k], date_format)]

(* Specification of QuickBooksFormatterAgent.generate_csv *)

MaxRows == 2

FormattedAmounts == {Normalise(-12345, 2), Zero, Normalise(45678, 2)}

FormattedTexts ==
    {[date |-> Date(2025, 7, 31), description |-> <<"T", "e", "s", "t", " ", "T", "r", "a", "n", "s", "a", "c", "t", "i", "o", "n", " ", "1">>],
     [date |-> Date(2025, 8, 1), description |-> <<"S", "h", "o", "p", ",", " ", "\"", "A", "\"">>]}

FormattedTransactions ==
    {NormalizedTransaction(t.date, t.description, a, k, SourceFile, <<>>) :
        t \in FormattedTexts, a \in FormattedAmounts, k \in {"Credit", "Debit"}}

TransactionLists(n) == UNION {[1..m -> FormattedTransactions] : m \in 0..n}

InitCsv ==
    /\ \E transactions \in TransactionLists(MaxRows), csv_format \in {"3-column", "4-column"},
          date_format \in {"MM/DD/YYYY", "DD/MM/YYYY"} :
           call = [fn |-> "generate_csv", transactions |-> transactions,
                   csv_format |-> csv_format, date_format |-> date_format]
    /\ ret = None
    /\ pc = "call"
    /\ locals = <<>>

GenerateCsv ==
    /\ pc = "call"
    /\ call.fn = "generate_csv"
    /\ ret' = generate_csv(call.transactions, call.csv_format, call.date_format)
    /\ pc' = "done"
    /\ UNCHANGED <<call, locals>>

NextCsv == GenerateCsv

SpecCsv == InitCsv /\ [][NextCsv]_vars

-----------------------------------------------------------------------------
(* C23: in the 4-column output every data row has exactly one of the Debit and
   Credit columns populated: a Debit transaction has abs(amount) in Debit and
   an empty Credit, a Credit transaction has abs(amount) in Credit and an empty
   Debit; the rows follow one header row, in the order of the input *)

CsvDone == pc = "done" /\ call.fn = "generate_csv"

FourColumnDone == CsvDone /\ call.csv_format = "4-column"

C23_OneOfDebitAndCredit ==
    FourColumnDone =>
        /\ Len(ret) = Len(call.transactions) + 1
        /\ ret[1] = FourColumnHeader
        /\ \A k \in 1..Len(call.transactions) :
              LET row == ret[k + 1]
                  transaction == call.transactions[k]
                  written == FloatString(Abs(transaction.amount))
              IN  /\ Len(row) = 4
                  /\ row[1] = normalize_date_format(transaction.date, call.date_format)
                  /\ row[2] = CsvField(transaction.description)
                  /\ (row[3] = <<>>) # (row[4] = <<>>)
                  /\ written # <<>>
                  /\ transaction.transaction_type = "Debit" => row[3] = written /\ row[4] = <<>>
                  /\ transaction.transaction_type = "Credit" => row[4] = written /\ row[3] = <<>>

C23_Witness ==
    /\ FourColumnDone
    /\ Len(call.transactions) = 2
    /\ call.transactions[1].transaction_type = "Debit"
    /\ call.transactions[2].transaction_type = "Credit"
    /\ IsNeg(call.transactions[2].amount)
    /\ ret[2] = <<<<"0", "7", "/", "3", "1", "/", "2", "0", "2", "5">>, <<"T", "e", "s", "t", " ", "T", "r", "a", "n", "s", "a", "c", "t", "i", "o", "n", " ", "1">>, <<"1", "2", "3", ".", "4", "5">>, <<>>>>
    /\ ret[3][3] = <<>> /\ ret[3][4] = <<"1", "2", "3", ".", "4", "5">>

-----------------------------------------------------------------------------
(* C24: on the free-text path, when the "debit ... credit ..." pattern is
   found its two captured groups become the debit and credit candidates with
   an amount confidence of 0.9, and no combined candidate is set even if
   amount-shaped substrings were matched; the first amount match becomes the
   combined candidate, with confidence 0.7, only when the pattern is not
   found *)

\* the record the last turn of the loop has mined
LastRecord == call.raw_data_list[locals.i - 1]

\* a record that takes the free-text path of _extract_transaction_fields
IsFreeText(raw_data) == ~(LooksLikeJson(raw_data.raw_text) /\ JsonLoads(raw_data.raw_text) # None)

AfterFreeText == AfterRecord /\ IsFreeText(LastRecord) /\ locals.extracted_transaction # None

PatternDecides(text, found, amounts, extracted) ==
    /\ found # None =>
          /\ extracted.potential_debit_str = Some(Strip(Group(text, found[1], 2)))
          /\ extracted.potential_credit_str = Some(Strip(Group(text, found[1], 4)))
          /\ extracted.potential_amount_str = None
          /\ extracted.confidence_score.amount = Confidence(90)
    /\ found = None =>
          /\ extracted.potential_debit_str = None
          /\ extracted.potential_credit_str = None
          /\ extracted.potential_amount_str = (IF amounts = <<>> THEN None ELSE Some(amounts[1]))
          /\ extracted.confidence_score.amount = (IF amounts = <<>> THEN Zero ELSE Confidence(70))

C24_PatternBeforeAmounts ==
    AfterFreeText =>
        PatternDecides(LastRecord.raw_text.text,
                       SearchFrom(DebitCreditPattern, LastRecord.raw_text.text, 0),
                       PotentialAmounts(LastRecord.raw_text.text),
                       locals.extracted_transaction[1])

C24_Witness ==
    /\ AfterFreeText
    /\ LastRecord.raw_text.text = <<"0", "7", "/", "3", "1", "/", "2", "0", "2", "5", " ", "D", "e", "b", "i", "t", ":", " ", "5", ".", "0", "0", " ", "C", "r", "e", "d", "i", "t", ":", " ", "0">>
    /\ PotentialAmounts(LastRecord.raw_text.text) # <<>>
    /\ locals.extracted_transaction[1].potential_debit_str = Some(<<"5", ".", "0", "0">>)
    /\ locals.extracted_transaction[1].potential_credit_str = Some(<<"0">>)
    /\ locals.extracted_transaction[1].potential_amount_str = None

C24_WitnessNoPattern ==
    /\ AfterFreeText
    /\ LastRecord.raw_text.text = <<"T", "e", "s", "t", " ", "$", "5">>
    /\ locals.extracted_transaction[1].potential_amount_str = Some(<<"$", "5">>)
    /\ locals.extracted_transaction[1].confidence_score.amount = Confidence(70)

-----------------------------------------------------------------------------
(* agents/receipt_extractor_agent.py.  The line items and the category
   suggestion of a receipt are computed from the text by pattern matches
   that cannot fail and that nothing else reads; they are left out of
   ReceiptData. *)

ReceiptData(vendor_name, transaction_date, total_amount, currency, image_path, ocr_raw_text) ==
    [vendor_name |-> vendor_name, transaction_date |-> transaction_date,
     total_amount |-> total_amount, currency |-> currency, image_path |-> image_path,
     ocr_raw_text |-> ocr_raw_text]

\* r'\d{1,2}[/\-\.]\d{1,2}[/\-\.]\d{2,4}'
DateLikePattern ==
    Cat(<<Rep(Chr(DigitChars), 1, 2), Chr({"/", "-", "."}), Rep(Chr(DigitChars), 1, 2),
          Chr({"/", "-", "."}), Rep(Chr(DigitChars), 2, 4)>>)

\* r'^[\d\-\.\(\)\s]+$'
NumbersOnlyPattern ==
    Cat(<<AtLeast(Chr(DigitChars \cup {"-", ".", "(", ")"} \cup Whitespace), 1), EOS>>)

\* r'(?i)(?:a|b|...)[:\s]+([^\n]+)' for the words a, b, ...
LabelPattern(words) ==
    Cat(<<Alt([k \in 1..Len(words) |-> LitI(words[k])]),
          AtLeast(Chr(Whitespace \cup {":"}), 1),
          Grp(AtLeast(NotChr({"\n"}), 1))>>)

\* group 1, stripped, of the first match of each of the patterns that is found
\* in the text, in the order of the patterns
LabelledGroups(patterns, text) ==
    Concat([k \in 1..Len(patterns) |->
               LET match == SearchFrom(patterns[k], text, 0)
               IN  IF match = None THEN <<>> ELSE <<Strip(Group(text, match[1], 1))>>])

\* lines 91-102: the first of the first five lines that is not empty, holds
\* no date and is not made of numbers only; None when there is none
RECURSIVE FirstVendorLine(_, _)
FirstVendorLine(lines, i) ==
    IF i > Len(lines) \/ i > 5 THEN None
    ELSE LET line == Strip(lines[i])
         IN  IF \/ line = <<>>
                \/ SearchFrom(DateLikePattern, line, 0) # None
                \/ Matches(NumbersOnlyPattern, line, 0, <<>>) # <<>>
             THEN FirstVendorLine(lines, i + 1)
             ELSE Some(line)

VendorPatterns ==
    <<LabelPattern(<<<<"s", "t", "o", "r", "e">>, <<"m", "e", "r", "c", "h", "a", "n", "t">>, <<"v", "e", "n", "d", "o", "r">>>>),
      LabelPattern(<<<<"w", "e", "l", "c", "o", "m", "e", " ", "t", "o">>, <<"t", "h", "a", "n", "k", " ", "y", "o", "u", " ", "f", "o", "r", " ", "s", "h", "o", "p", "p", "i", "n", "g", " ", "a", "t">>>>)>>

\* ReceiptExtractorAgent._extract_vendor_name
extract_vendor_name(text) ==
    LET line == FirstVendorLine(SplitOn(text, "\n"), 1)
        labelled == LabelledGroups(VendorPatterns, text)
    IN  IF line # None THEN line[1]
        ELSE IF labelled # <<>> THEN labelled[1]
        ELSE <<"U", "n", "k", "n", "o", "w", "n", " ", "V", "e", "n", "d", "o", "r">>

\* lines 127-135: the first of the dates found that can be parsed
RECURSIVE FirstParsed(_, _)
FirstParsed(dates, i) ==
    IF i > Len(dates) THEN None
    ELSE IF parse_date_robustly(Some(dates[i])) # None THEN parse_date_robustly(Some(dates[i]))
    ELSE FirstParsed(dates, i + 1)

DateLabelPatterns ==
    <<LabelPattern(<<<<"d", "a", "t", "e">>, <<"t", "i", "m", "e">>>>),
      LabelPattern(<<<<"r", "e", "c", "e", "i", "p", "t">>, <<"i", "n", "v", "o", "i", "c", "e">>, <<"t", "r", "a", "n", "s", "a", "c", "t", "i", "o", "n">>>>)>>

\* ReceiptExtractorAgent._extract_date; today is datetime.now().date()
extract_date(text, today) ==
    LET parsed == FirstParsed(extract_dates_from_text(text), 1)
        labelled == FirstParsed(LabelledGroups(DateLabelPatterns, text), 1)
    IN  IF parsed # None THEN parsed
        ELSE IF labelled # None THEN labelled
        ELSE Some(today)

\* r'[\$£€]?([0-9,]+\.[0-9]{2})'
PricePattern ==
    Cat(<<Rep(Chr({"$", "£", "€"}), 0, 1),
          Grp(Cat(<<AtLeast(Chr(DigitChars \cup {","}), 1), Chr({"."}),
                    Rep(Chr(DigitChars), 2, 2)>>))>>)

\* r'(?i)(?:a|b|...)[:\s]+[\$£€]?([0-9,]+\.[0-9]{2})' for the words a, b, ...
TotalPattern(words) ==
    Cat(<<Alt([k \in 1..Len(words) |-> LitI(words[k])]),
          AtLeast(Chr(Whitespace \cup {":"}), 1), PricePattern>>)

TotalPatterns ==
    <<TotalPattern(<<<<"t", "o", "t", "a", "l">>>>),
      TotalPattern(<<<<"a", "m", "o", "u", "n", "t">>, <<"s", "u", "m">>, <<"g", "r", "a", "n", "d", " ", "t", "o", "t", "a", "l">>, <<"p", "a", "y", "m", "e", "n", "t">>>>),
      TotalPattern(<<<<"t", "o", "t", "a", "l">>, <<"a", "m", "o", "u", "n", "t">>, <<"s", "u", "m">>>>),
      TotalPattern(<<<<"t", "o", "t", "a", "i">>, <<"t", "o", "t", "o", "l">>, <<"t", "0", "t", "a", "l">>, <<"t", "o", "t", "a", "1">>>>)>>

\* re.findall(p, s) for a pattern with one capturing group is
\* FindGroupsFrom(p, s, 0)
RECURSIVE FindGroupsFrom(_, _, _)
FindGroupsFrom(p, s, i) ==
    LET m == SearchFrom(p, s, i)
    IN  IF m = None THEN <<>>
        ELSE <<Group(s, m[1], 1)>> \o FindGroupsFrom(p, s, AfterMatch(m[1]))

\* the first of the amounts parsed from the strings i.. that passes: <<amount>>
\* or None; with positive, an amount has to be above zero to pass
RECURSIVE FirstAmount(_, _, _)
FirstAmount(strings, i, positive) ==
    IF i > Len(strings) THEN None
    ELSE LET amount == extract_numeric_amount(Some(strings[i]))
         IN  IF amount # None /\ (~positive \/ IsPos(amount[1])) THEN amount
             ELSE FirstAmount(strings, i + 1, positive)

\* ReceiptExtractorAgent._extract_total_amount
extract_total_amount(text) ==
    LET labelled == FirstAmount(LabelledGroups(TotalPatterns, text), 1, FALSE)
        amount_matches == FindGroupsFrom(PricePattern, text, 0)
        quarter == IF Len(amount_matches) \div 4 > 1 THEN Len(amount_matches) \div 4 ELSE 1
        last_quarter == SubSeq(amount_matches, Len(amount_matches) - quarter + 1,
                               Len(amount_matches))
        trailing == IF amount_matches = <<>> THEN None ELSE FirstAmount(last_quarter, 1, TRUE)
    IN  IF labelled # None THEN labelled[1]
        ELSE IF trailing # None THEN trailing[1]
        ELSE Zero

\* ReceiptExtractorAgent._extract_currency
extract_currency(text) ==
    IF Contains(text, "$") THEN "USD"
    ELSE IF Contains(text, "£") THEN "GBP"
    ELSE IF Contains(text, "€") THEN "EUR"
    ELSE IF Contains(text, "¥") THEN "JPY"
    ELSE IF HasSubstring(text, <<"C", "H", "F">>) THEN "CHF"
    ELSE IF HasSubstring(text, <<"C", "A", "D">>) THEN "CAD"
    ELSE IF HasSubstring(text, <<"A", "U", "D">>) THEN "AUD"
    ELSE "USD"

\* lines 56-69: the receipt, when vendor_name, transaction_date and
\* total_amount are truthy
ReceiptOf(ocr_text, image_path, vendor_name, transaction_date, total_amount) ==
    IF vendor_name # <<>> /\ transaction_date # None /\ total_amount # Zero
    THEN Some(ReceiptData(vendor_name, transaction_date[1], total_amount,
                          extract_currency(ocr_text), image_path, ocr_text))
    ELSE None

\* ReceiptExtractorAgent.process_receipt
process_receipt(raw_data, image_path, today) ==
    ReceiptOf(raw_data.raw_text, image_path, extract_vendor_name(raw_data.raw_text),
              extract_date(raw_data.raw_text, today), extract_total_amount(raw_data.raw_text))

(* Specification of ReceiptExtractorAgent.process_receipt *)

ReceiptLines == {
    <<"A", "C", "M", "E", " ", "M", "a", "r", "k", "e", "t">>,
    <<"0", "7", "/", "3", "1", "/", "2", "0", "2", "5">>,
    <<"D", "a", "t", "e", ":", " ", "1", "3", "/", "3", "2", "/", "2", "0", "2", "5">>,
    <<"D", "a", "t", "e", ":", " ", "0", "8", "/", "0", "1", "/", "2", "0", "2", "5">>,
    <<"T", "o", "t", "a", "l", ":", " ", "$", "1", "2", ".", "3", "4">>,
    <<"T", "o", "t", "a", "l", ":", " ", "$", "0", ".", "0", "0">>,
    <<"2", " ", "x", " ", "3", ".", "5", "0", " ", "7", ".", "0", "0">>
}

MaxLines == 3

\* the receipt texts of exactly n lines
RECURSIVE ReceiptsOf(_)
ReceiptsOf(n) ==
    IF n = 0 THEN {<<>>}
    ELSE IF n = 1 THEN ReceiptLines
    ELSE {t \o <<"\n">> \o l : t \in ReceiptsOf(n - 1), l \in ReceiptLines}

ReceiptTexts == UNION {ReceiptsOf(n) : n \in 0..MaxLines}

ImagePath == <<"r", "e", "c", "e", "i", "p", "t", ".", "j", "p", "g">>

Today == Date(2026, 11, 2)

InitReceipt ==
    /\ \E text \in ReceiptTexts :
           call = [fn |-> "process_receipt",
                   raw_data |-> [raw_text |-> text, source_file_name |-> ImagePath],
                   image_path |-> ImagePath, today |-> Today]
    /\ ret = None
    /\ pc = "call"
    /\ locals = <<>>

ProcessReceipt ==
    /\ pc = "call"
    /\ call.fn = "process_receipt"
    /\ ret' = process_receipt(call.raw_data, call.image_path, call.today)
    /\ pc' = "done"
    /\ UNCHANGED <<call, locals>>

NextReceipt == ProcessReceipt

SpecReceipt == InitReceipt /\ [][NextReceipt]_vars

-----------------------------------------------------------------------------
(* C25: no date is made up: the date carried by a receipt that
   process_receipt returns was parsed from the receipt's text; given a text
   from which no date can be parsed, no ReceiptData is returned with a date
   of its own making *)

ReceiptDone == pc = "done" /\ call.fn = "process_receipt"

\* the date is what parse_date_robustly makes of some part of the text
ParsedFrom(date, text) ==
    \E i \in 1..Len(text) : \E j \in i..Len(text) :
        parse_date_robustly(Some(SubSeq(text, i, j))) = Some(date)

C25_ReceiptDateIsParsed ==
    (ReceiptDone /\ ret # None) => ParsedFrom(ret[1].transaction_date, call.raw_data.raw_text)

\* a receipt with a date is returned with that date
C25_DatedReceipt ==
    /\ ReceiptDone
    /\ call.raw_data.raw_text = <<"A", "C", "M", "E", " ", "M", "a", "r", "k", "e", "t">> \o <<"\n">> \o <<"0", "7", "/", "3", "1", "/", "2", "0", "2", "5">> \o <<"\n">> \o <<"T", "o", "t", "a", "l", ":", " ", "$", "1", "2", ".", "3", "4">>
    /\ ret # None
    /\ ret[1].transaction_date = Date(2025, 7, 31)

\* a receipt without a date is returned with the date of the day
C25_UndatedReceipt ==
    /\ ReceiptDone
    /\ call.raw_data.raw_text = <<"A", "C", "M", "E", " ", "M", "a", "r", "k", "e", "t">> \o <<"\n">> \o <<"T", "o", "t", "a", "l", ":", " ", "$", "1", "2", ".", "3", "4">>
    /\ ret # None
    /\ ret[1].transaction_date = call.today

-----------------------------------------------------------------------------
(* C26: every transaction produced from a free-text record in which the
   debit/credit pattern does not match has kind Debit: the combined candidate
   is an amount-shaped match and holds no indicator word, so neither a credit
   keyword elsewhere in the text nor a plus sign gives Credit on this path *)

\* the last turn mined a free text without the debit/credit pattern and
\* emitted a transaction
EmittedFromPlainAmount ==
    /\ AfterFreeText
    /\ SearchFrom(DebitCreditPattern, LastRecord.raw_text.text, 0) = None
    /\ EmittedBy(locals) # None

C26_PlainAmountIsDebit ==
    EmittedFromPlainAmount =>
        /\ EmittedBy(locals)[1].transaction_type = "Debit"
        /\ ~IsPos(EmittedBy(locals)[1].amount)

C26_Witness ==
    /\ EmittedFromPlainAmount
    /\ LastRecord.raw_text.text = <<"0", "7", "/", "3", "1", "/", "2", "0", "2", "5", " ", "D", "e", "p", "o", "s", "i", "t", " ", "$", "1", "2", "3", ".", "4", "5">>
    /\ contains_credit_indicators(LastRecord.raw_text.text)
    /\ EmittedBy(locals)[1].transaction_type = "Debit"
    /\ EmittedBy(locals)[1].amount = Normalise(-12345, 2)

-----------------------------------------------------------------------------
(* C27: the CSV reader emits at most one record for a source row: when the
   pandas pass fails at any point and the csv module pass runs, the list that
   is returned holds only the records of the csv module pass, none left over
   from the pandas pass, and no line_number twice *)

\* the pandas pass failed on row locals.i, the csv module pass ran to its end
\* and the list has come back
FallbackRan ==
    /\ ExtractDone
    /\ call.file_type = "CSV"
    /\ Dispatch(call.exists, call.file_type, call.prologue) = "reader"
    /\ call.opening = "ok"
    /\ locals.i <= Len(call.units)
    /\ call.units[locals.i].text = "raises"
    /\ call.fallback = "ok"

C27_OnlyFallbackRecords ==
    FallbackRan =>
        /\ \A k \in 1..Len(ret[1]) : ret[1][k].raw_text = "line"
        /\ \A j, k \in 1..Len(ret[1]) : ret[1][j].number = ret[1][k].number => j = k

\* pandas failed on the second row: its first row is returned beside the
\* lines of the csv module, two records with line_number 1
C27_LeftOver ==
    /\ FallbackRan
    /\ locals.i = 2
    /\ Len(ret[1]) = Len(call.units) + 2
    /\ ret[1][1] = [raw_text |-> "text", number |-> 1]
    /\ ret[1][2] = [raw_text |-> "line", number |-> 1]

-----------------------------------------------------------------------------
(* main.py: process_file, the background task of a job.  The database is
   the job's row and the transactions stored for it, as committed; the
   session holds what process_file has changed and not yet committed.  The
   life of locals: job and stored are the committed row and transactions,
   session the uncommitted changes, source_file whether the uploaded file is
   on disk, output the content of the output file (None when there is no
   file), error the exception that was raised.  The ORM classes Job and
   Transaction and the session maker are not part of the sources; a commit
   writes the session's changes in one transaction, a rollback drops them. *)

\* a row of the jobs table
JobRow(status, output_file, error_message) ==
    [status |-> status, output_file |-> output_file, error_message |-> error_message]

\* a session without changes
CleanSession == [job |-> None, added |-> <<>>]

\* await db.commit(): the changed row and the added transactions are stored
Commit(state) ==
    [state EXCEPT !.job = IF state.session.job # None THEN state.session.job ELSE @,
                  !.stored = @ \o state.session.added,
                  !.session = CleanSession]

\* await db.rollback(): the changes of the session are dropped
Rollback(state) == [state EXCEPT !.session = CleanSession]

\* the row of the job as the session sees it
SessionJob(state) == IF state.session.job # None THEN state.session.job ELSE state.job

\* QuickBooksFormatterAgent.write_csv_to_file: the content of the file after
\* the call (before it: file) and the value returned; outcome is what open
\* and write do
write_csv_to_file(transactions, csv_format, date_format, outcome, file) ==
    CASE outcome = "ok" ->
             [file |-> Some(generate_csv(transactions, csv_format, date_format)),
              returns |-> TRUE]
      [] outcome = "open raises" -> [file |-> file, returns |-> FALSE]
      [] outcome = "write raises" -> [file |-> Some(<<>>), returns |-> FALSE]

OutputPath == <<"d", "o", "w", "n", "l", "o", "a", "d", "s", "/", "j", "o", "b", "_", "o", "u", "t", "p", "u", "t", ".", "c", "s", "v">>

(* Specification of process_file *)

MaxStored == 2

StoredTransactions == {
    NormalizedTransaction(Date(2025, 7, 31), <<"T", "e", "s", "t", " ", "T", "r", "a", "n", "s", "a", "c", "t", "i", "o", "n", " ", "1">>, Normalise(-12345, 2), "Debit", SourceFile, <<>>),
    NormalizedTransaction(Date(2025, 8, 1), <<"T", "e", "s", "t", " ", "T", "r", "a", "n", "s", "a", "c", "t", "i", "o", "n", " ", "2">>, Normalise(45678, 2), "Credit", SourceFile, <<>>)
}

\* what the source file and the libraries do to one call: job_exists and
\* source_exists are the row and the uploaded file being there, extracted
\* whether extract_from_file returns records, interpreted the transactions
\* process_raw_transactions returns, write what open and write do to the
\* output file, fault the database call of the try block that raises
InitJob ==
    /\ \E job_exists \in BOOLEAN, source_exists \in BOOLEAN, extracted \in BOOLEAN,
          interpreted \in UNION {[1..n -> StoredTransactions] : n \in 0..MaxStored},
          csv_format \in {"3-column", "4-column"}, date_format \in {"MM/DD/YYYY", "DD/MM/YYYY"},
          write \in {"ok", "open raises", "write raises"},
          fault \in {"none", "commit PROCESSING", "Transaction", "commit COMPLETED"} :
           call = [fn |-> "process_file", job_exists |-> job_exists,
                   source_exists |-> source_exists, extracted |-> extracted,
                   interpreted |-> interpreted, csv_format |-> csv_format,
                   date_format |-> date_format, write |-> write, fault |-> fault]
    /\ ret = None
    /\ pc = "call"
    /\ locals = [job |-> IF call.job_exists THEN Some(JobRow("PENDING", None, None)) ELSE None,
                 stored |-> <<>>, session |-> CleanSession,
                 source_file |-> call.source_exists, output |-> None, error |-> None]

\* an exception leaves the try block: the handler of lines 374-382 is next
Raise(state, error) == [state EXCEPT !.error = Some(error)]

\* lines 323-336: the job is looked up; without it the task returns, with it
\* the status PROCESSING is committed
StartProcessing ==
    /\ call.fn = "process_file"
    /\ pc = "call"
    /\ IF locals.job = None
       THEN pc' = "finally" /\ UNCHANGED locals
       ELSE LET changed == [locals EXCEPT !.session.job =
                                Some([SessionJob(locals)[1] EXCEPT !.status = "PROCESSING"])]
            IN  IF call.fault = "commit PROCESSING"
                THEN pc' = "except" /\ locals' = Raise(changed, "commit failed")
                ELSE pc' = "extract" /\ locals' = Commit(changed)
    /\ UNCHANGED <<call, ret>>

\* lines 342-351: the source file has to be there and to give raw records
ExtractRaw ==
    /\ call.fn = "process_file"
    /\ pc = "extract"
    /\ IF ~locals.source_file
       THEN pc' = "except" /\ locals' = Raise(locals, "Source file not found")
       ELSE IF ~call.extracted
       THEN pc' = "except" /\ locals' = Raise(locals, "No transaction data could be extracted.")
       ELSE pc' = "interpret" /\ UNCHANGED locals
    /\ UNCHANGED <<call, ret>>

\* lines 353-357: the raw records have to give transactions
Interpret ==
    /\ call.fn = "process_file"
    /\ pc = "interpret"
    /\ IF call.interpreted = <<>>
       THEN pc' = "except" /\ locals' = Raise(locals, "Failed to interpret any transactions.")
       ELSE pc' = "write" /\ UNCHANGED locals
    /\ UNCHANGED <<call, ret>>

\* lines 359-361: the CSV is written; what write_csv_to_file returns is not read
WriteCsv ==
    /\ call.fn = "process_file"
    /\ pc = "write"
    /\ locals' = [locals EXCEPT !.output =
                     write_csv_to_file(call.interpreted, call.csv_format, call.date_format,
                                       call.write, locals.output).file]
    /\ pc' = "add"
    /\ UNCHANGED <<call, ret>>

\* lines 363-366: the transactions are added to the session
AddTransactions ==
    /\ call.fn = "process_file"
    /\ pc = "add"
    /\ IF call.fault = "Transaction"
       THEN pc' = "except" /\ locals' = Raise(locals, "Transaction failed")
       ELSE pc' = "complete" /\ locals' = [locals EXCEPT !.session.added = @ \o call.interpreted]
    /\ UNCHANGED <<call, ret>>

\* lines 368-372: the status COMPLETED and the output file are committed with
\* the transactions
CompleteJob ==
    /\ call.fn = "process_file"
    /\ pc = "complete"
    /\ LET changed == [locals EXCEPT !.session.job =
                          Some([SessionJob(locals)[1] EXCEPT !.status = "COMPLETED",
                                                             !.output_file = Some(OutputPath)])]
       IN  IF call.fault = "commit COMPLETED"
           THEN pc' = "except" /\ locals' = Raise(changed, "commit failed")
           ELSE pc' = "finally" /\ locals' = Commit(changed)
    /\ UNCHANGED <<call, ret>>

\* lines 374-382: the session is rolled back, and the job, when there is one,
\* is committed as FAILED with the message of the exception
HandleFailure ==
    /\ call.fn = "process_file"
    /\ pc = "except"
    /\ LET rolled == Rollback(locals)
       IN  locals' = IF rolled.job = None THEN rolled
                     ELSE Commit([rolled EXCEPT !.session.job =
                                     Some([rolled.job[1] EXCEPT !.status = "FAILED",
                                                                !.error_message = rolled.error])])
    /\ pc' = "finally"
    /\ UNCHANGED <<call, ret>>

\* lines 383-386: the uploaded file is removed
Cleanup ==
    /\ call.fn = "process_file"
    /\ pc = "finally"
    /\ locals' = [locals EXCEPT !.source_file = FALSE]
    /\ pc' = "done"
    /\ UNCHANGED <<call, ret>>

NextJob ==
    \/ StartProcessing
    \/ ExtractRaw
    \/ Interpret
    \/ WriteCsv
    \/ AddTransactions
    \/ CompleteJob
    \/ HandleFailure
    \/ Cleanup

SpecJob == InitJob /\ [][NextJob]_vars

-----------------------------------------------------------------------------
(* C28: a job's transactions are stored only together with the status
   COMPLETED, in one commit: in every reachable state a job that is PENDING,
   PROCESSING or FAILED has no stored transactions, and a failure at any step
   after PROCESSING was committed (no raw records, no interpreted
   transactions, a formatter error, a database error) rolls back and leaves
   the job FAILED with an error message *)

InProcessFile == call.fn = "process_file"

\* transactions are stored for no job but a COMPLETED one
StoredOnlyWhenCompleted ==
    (InProcessFile /\ (locals.job = None \/ locals.job[1].status # "COMPLETED"))
        => locals.stored = <<>>

\* PROCESSING was committed and a later step fails: the source file is gone,
\* no raw records, no transactions, the formatter or the database fails
FailsAfterProcessing ==
    /\ InProcessFile
    /\ call.job_exists
    /\ call.fault # "commit PROCESSING"
    /\ \/ ~call.source_exists
       \/ ~call.extracted
       \/ call.interpreted = <<>>
       \/ call.write # "ok"
       \/ call.fault \in {"Transaction", "commit COMPLETED"}

LeftFailed ==
    /\ locals.job[1].status = "FAILED"
    /\ locals.job[1].error_message # None
    /\ locals.stored = <<>>
    /\ locals.session = CleanSession

C28_StoredWithCompletedOnly ==
    /\ StoredOnlyWhenCompleted
    /\ (FailsAfterProcessing /\ pc = "done") => LeftFailed

\* the formatter could not open the output file, and the job is COMPLETED
C28_FormatterErrorCompleted ==
    /\ InProcessFile /\ pc = "done"
    /\ call.write = "open raises"
    /\ locals.job # None /\ locals.job[1].status = "COMPLETED"
    /\ locals.stored = call.interpreted

-----------------------------------------------------------------------------
(* C29: whenever process_file marks a job COMPLETED, the file at
   job.output_file exists and holds the formatted CSV, a header and one row
   for each stored transaction: a failure while generating or writing the
   CSV leads to FAILED, never to COMPLETED with a missing or empty file *)

JobCompleted == InProcessFile /\ locals.job # None /\ locals.job[1].status = "COMPLETED"

HoldsFormattedCsv(file, transactions) ==
    /\ file # None
    /\ Len(file[1]) = Len(transactions) + 1
    /\ file[1][1] \in {ThreeColumnHeader, FourColumnHeader}
    /\ \A k \in 1..Len(transactions) : file[1][k + 1][2] = CsvField(transactions[k].description)

C29_CompletedHasOutputFile ==
    JobCompleted =>
        /\ locals.job[1].output_file = Some(OutputPath)
        /\ HoldsFormattedCsv(locals.output, locals.stored)

\* the job is COMPLETED and there is no output file
C29_CompletedWithoutFile ==
    /\ JobCompleted
    /\ locals.job[1].output_file = Some(OutputPath)
    /\ locals.output = None
    /\ locals.stored # <<>>

-----------------------------------------------------------------------------
(* C30: for a combined candidate tagged "CSV:" that holds no indicator word
   and whose parsed value is not negative, the amount parse_amount_and_type
   returns is the value extract_numeric_amount computes for that candidate,
   for every amount string over digits, commas and periods *)

\* the combined candidate decides, and it is the tag followed by digits,
\* commas and periods that extract to a number that is not negative
TaggedPlainAmount ==
    /\ AmtDone
    /\ ~ParsesNonZero(call.credit_str) /\ ~ParsesNonZero(call.debit_str)
    /\ Truthy(call.amount_str)
    /\ StartsWith(call.amount_str[1], CSVPrefix)
    /\ \A k \in (Len(CSVPrefix) + 1)..Len(call.amount_str[1]) :
           call.amount_str[1][k] \in DigitChars \cup {",", "."}
    /\ Parses(call.amount_str)
    /\ ~IsNeg(ValueOf(call.amount_str))

C30_StructuredAmountIsExtracted ==
    TaggedPlainAmount => ret.amount = Some(ValueOf(call.amount_str))

\* "CSV:1,1": 1.1 is extracted and 11.0 is returned
C30_CommaDisagreement ==
    /\ TaggedPlainAmount
    /\ call.amount_str = Some(CSVPrefix \o <<"1", ",", "1">>)
    /\ ValueOf(call.amount_str) = Normalise(11, 1)
    /\ ret = AmountAndType(Normalise(11, 0), "Credit")

====
